---- MODULE Spec2Model ----
(***************************************************************************)
(* check-cx: the snapshot/cache layer of lib/core/group-data.ts            *)
(* (loadGroupDashboardData and its refreshHistory closure), the history    *)
(* store it reads and writes, and the poller lease of a multi-node         *)
(* deployment.                                                             *)
(***************************************************************************)
EXTENDS Integers, Sequences, FiniteSets, TLC

\* ------------------------------------------------------------------ bounds
MaxTime == 3          \* the clock runs 0..MaxTime
MaxCalls == 2         \* loadGroupDashboardData calls in one behaviour
MaxRounds == 2        \* probe rounds (inflight promises) in one behaviour
PollIntervalMs == 2   \* getPollingIntervalMs(), in clock units
LeaseDurationMs == 2  \* leaseDurationMs, in clock units
LimitPerConfig == 2   \* limit_per_config (60 in the migration), scaled down
MaxLines == 2         \* lines in one response body
MaxChunk == 11        \* tokens in one chunk of a response body
MaxConfigs == 3       \* rows of check_configs read by getAvailableGroups
MaxTicks == 4         \* firings of the interval timer of one browser tab

\* --------------------------------------------------------------- constants
Nodes == {"n1", "n2"}
NoNode == "none"
Calls == 1..MaxCalls
Rounds == 1..MaxRounds
NoRound == 0

UNGROUPED_KEY == "__ungrouped__"

\* loadProviderConfigsFromDB(): the enabled rows of check_configs: a group
\* with a probed and a maintenance config, a group under maintenance only,
\* and a group with two probed configs
loadProviderConfigsFromDB ==
  { [id |-> "a", groupName |-> "g1", is_maintenance |-> FALSE],
    [id |-> "m", groupName |-> "g1", is_maintenance |-> TRUE],
    [id |-> "k", groupName |-> "g2", is_maintenance |-> TRUE],
    [id |-> "b", groupName |-> "g3", is_maintenance |-> FALSE],
    [id |-> "c", groupName |-> "g3", is_maintenance |-> FALSE] }

ConfigIds == { cfg.id : cfg \in loadProviderConfigsFromDB }

\* the group names a request may carry ("zz" is configured nowhere)
TargetGroups == {"g1", "g2", "zz"}
RefreshModes == {"always", "missing", "never"}

\* a group without configs given the configs without a group
groupConfigs_FallBack(targetGroupName) ==
  LET named == { cfg \in loadProviderConfigsFromDB :
                   cfg.groupName = targetGroupName }
  IN IF named = {} THEN loadProviderConfigsFromDB ELSE named

\* lines 79-85, the filter callback: a config without a group name belongs
\* to the target "__ungrouped__", any other config to the target that equals
\* its group name
isInTargetGroup(config, targetGroupName) ==
  IF targetGroupName = UNGROUPED_KEY
    THEN config.groupName = ""
    ELSE config.groupName = targetGroupName

\* lines 79-85
groupConfigs(targetGroupName) ==
  { cfg \in loadProviderConfigsFromDB : isInTargetGroup(cfg, targetGroupName) }

\* the maintenance flag not looked at
activeConfigs_All(g) == groupConfigs(g)

\* lines 93-96
maintenanceConfigs(g) == { cfg \in groupConfigs(g) : cfg.is_maintenance }
activeConfigs(g) == { cfg \in groupConfigs(g) : ~cfg.is_maintenance }
allowedIds(g) == { cfg.id : cfg \in activeConfigs(g) }

\* lines 99-101: the key is a function of the group, the interval and the
\* active id set
cacheKey(g) == <<g, PollIntervalMs, allowedIds(g)>>

\* the groups that own a cache entry (a call for a group without configs
\* returns before getPingCacheEntry)
KeyedGroups == { g \in TargetGroups : groupConfigs(g) # {} }

\* ------------------------------------------------------------------ values
\* config.name, in the order of localeCompare
ConfigNames == <<"alpha", "beta">>

\* a.name.localeCompare(b.name)
localeCompare(a, b) ==
  LET rank(name) == CHOOSE i \in 1..Len(ConfigNames) : ConfigNames[i] = name
  IN rank(a) - rank(b)

\* latencyMs is a number or null: <<n>> or <<>>
null == <<>>
Num(n) == <<n>>

\* a string, by a name for its characters and its length; arg is the number
\* a template literal interpolates
Text(chars, len) == [chars |-> chars, len |-> len, arg |-> 0]

\* ------------------------------------------------------------------- state
VARIABLES
  now,        \* Date.now()
  store,      \* check_history: config id -> rows, newest insert first
  lease,      \* check_poller_leases: the single lease row
  leaderUntil,\* per node: the expiry of the lease it last acquired, 0 if standby
  cache,      \* per node: group -> cache entry of getPingCacheEntry(cacheKey)
  rounds,     \* the inflight promises created by refreshHistory
  calls,      \* the loadGroupDashboardData invocations
  appendLog,  \* history: who called appendHistory, and its standing under the lease
  serial,     \* history: some call began after another had returned
  probe,      \* the provider checks of one runProviderChecks batch
  batch,      \* the runProviderChecks call itself
  stream,     \* one framing parser reading one response body
  view,       \* what each caller of loadGroupDashboardData received
  poller,     \* per node: the timer-driven loop of lib/core/poller.ts
  client      \* the DashboardView component of one browser tab

vars == <<now, store, lease, leaderUntil, cache, rounds, calls, appendLog, serial,
          probe, batch, stream, view, poller, client>>

EmptyHistory == [id \in {} |-> <<>>]

\* ------------------------------------------------------------ history store
RECURSIVE InsertByCheckedAt(_, _)
\* rows ordered by checked_at desc; a new row goes before older or equal rows
InsertByCheckedAt(row, rows) ==
  IF rows = <<>> THEN <<row>>
  ELSE IF row.checkedAt >= Head(rows).checkedAt THEN <<row>> \o rows
  ELSE <<Head(rows)>> \o InsertByCheckedAt(row, Tail(rows))

RECURSIVE OrderByCheckedAtDesc(_)
OrderByCheckedAtDesc(rows) ==
  IF rows = <<>> THEN <<>>
  ELSE InsertByCheckedAt(rows[Len(rows)], OrderByCheckedAtDesc(SubSeq(rows, 1, Len(rows) - 1)))

FirstN(rows, n) == SubSeq(rows, 1, IF Len(rows) < n THEN Len(rows) ELSE n)

\* target_config_ids uuid[] default null: no array, or <<ids>>
NoTargetIds == <<>>
TargetIds(ids) == <<ids>>

\* the where clause of the ranked CTE
Targeted(id, target_config_ids) ==
  \/ target_config_ids = NoTargetIds
  \/ id \in target_config_ids[1]

\* the rows of every provider, whatever target_config_ids says
rpc_get_recent_check_history_AnyConfig(st, limit_per_config, target_config_ids) ==
  [id \in { i \in DOMAIN st : st[i] # <<>> } |->
     FirstN(OrderByCheckedAtDesc(st[id]), limit_per_config)]

\* the rows in the order of their insertion, not ranked by checked_at
rpc_get_recent_check_history_Unranked(st, limit_per_config, target_config_ids) ==
  [id \in { i \in DOMAIN st : st[i] # <<>> /\ Targeted(i, target_config_ids) } |->
     FirstN(st[id], limit_per_config)]

\* get_recent_check_history(limit_per_config, target_config_ids): the ranked
\* CTE numbers the rows of each targeted config by checked_at desc, the
\* select keeps rn <= limit_per_config in that order (check_configs holds a
\* row for every config id of the store, so the join drops nothing); a
\* config with no row has no key in the snapshot
rpc_get_recent_check_history(st, limit_per_config, target_config_ids) ==
  [id \in { i \in DOMAIN st : st[i] # <<>> /\ Targeted(i, target_config_ids) } |->
     FirstN(OrderByCheckedAtDesc(st[id]), limit_per_config)]

\* the call with the default limit and no target ids
get_recent_check_history(st) ==
  rpc_get_recent_check_history(st, LimitPerConfig, NoTargetIds)

\* the limit applied to the rows as they were inserted
rpc_prune_check_history_Unranked(st, limit_per_config) ==
  [id \in DOMAIN st |-> FirstN(st[id], limit_per_config)]

\* prune_check_history(limit_per_config): delete the rows with rn > limit,
\* rn numbering the rows of a config by checked_at desc
rpc_prune_check_history(st, limit_per_config) ==
  [id \in DOMAIN st |-> FirstN(OrderByCheckedAtDesc(st[id]), limit_per_config)]

\* the call every write is followed by
prune_check_history(st) == rpc_prune_check_history(st, LimitPerConfig)

loadHistory(st) == get_recent_check_history(st)

\* appendHistory(results): insert the rows, prune
InsertRows(st, results) ==
  [id \in DOMAIN st |->
     IF \E r \in results : r.id = id
       THEN <<CHOOSE r \in results : r.id = id>> \o st[id]
       ELSE st[id]]

appendHistoryStore(st, results) == prune_check_history(InsertRows(st, results))

\* lines 104-111
filterHistory(g, history) ==
  IF allowedIds(g) = {} THEN EmptyHistory
  ELSE [id \in DOMAIN history \cap allowedIds(g) |-> history[id]]

\* line 113
readFilteredHistory(g, st) == filterHistory(g, loadHistory(st))

\* runProviderChecks(activeConfigs): one result per config, stamped at
\* completion
runProviderChecks(configs, t) ==
  { [id |-> cfg.id, checkedAt |-> t] : cfg \in configs }

\* --------------------------------------------------------------------- Init
NoCall ==
  [pc |-> "idle", node |-> NoNode, group |-> "", mode |-> "",
   history |-> EmptyHistory, via |-> "", round |-> NoRound,
   result |-> [kind |-> "none", history |-> EmptyHistory]]

FreeRound ==
  [state |-> "free", node |-> NoNode, group |-> "", results |-> {},
   value |-> EmptyHistory, finishedAt |-> 0]

\* getPingCacheEntry creates { history: undefined, lastPingAt: 0 } lazily
NewCacheEntry ==
  [hasHistory |-> FALSE, history |-> EmptyHistory, lastPingAt |-> 0,
   inflight |-> NoRound]

\* no provider check, no batch and no parser has been started, no caller
\* is observed, no poller loop and no browser tab runs
NoProbe == [pc |-> "unused"]
NoBatch == [pc |-> "unused"]
NoStream == [pc |-> "unused"]
NoView == [pc |-> "unused"]
NoPoller == [pc |-> "unused"]
NoClient == [pc |-> "unused"]

\* the snapshot layer after module load: empty caches, no lease holder
SnapshotInit ==
  /\ now = 0
  /\ store = [id \in ConfigIds |-> <<>>]
  /\ lease = [holder |-> NoNode, leaseExpiresAt |-> 0, fencingToken |-> 0]
  /\ leaderUntil = [n \in Nodes |-> 0]
  /\ cache = [n \in Nodes |-> [g \in KeyedGroups |-> NewCacheEntry]]
  /\ rounds = [r \in Rounds |-> FreeRound]
  /\ calls = [c \in Calls |-> NoCall]
  /\ appendLog = {}
  /\ serial = FALSE

Init ==
  /\ SnapshotInit
  /\ probe = NoProbe
  /\ batch = NoBatch
  /\ stream = NoStream
  /\ view = NoView
  /\ poller = NoPoller
  /\ client = NoClient

\* ------------------------------------------------------------------ clock
Tick ==
  /\ now < MaxTime
  /\ now' = now + 1
  /\ UNCHANGED <<store, lease, leaderUntil, cache, rounds, calls, appendLog, serial, probe, batch, stream, view, poller, client>>

\* ------------------------------------------------- loadGroupDashboardData
\* line 151: options?.refreshMode ?? "missing"
RefreshOptions == RefreshModes \cup {"unset"}
refreshMode(option) == IF option = "unset" THEN "missing" ELSE option

\* "missing" without the test for active configs (line 157)
WantsRefresh_NoActiveTest(mode, g, history) ==
  \/ mode = "always"
  \/ /\ mode = "missing"
     /\ DOMAIN history = {}

\* the empty-history branch without the test of the mode (line 156)
WantsRefresh_NoModeTest(mode, g, history) ==
  \/ mode = "always"
  \/ /\ allowedIds(g) # {}
     /\ DOMAIN history = {}

\* lines 153-161: does the call go through refreshHistory
WantsRefresh(mode, g, history) ==
  \/ mode = "always"
  \/ /\ mode = "missing"
     /\ allowedIds(g) # {}
     /\ DOMAIN history = {}

\* the rate limit left out
CacheFresh_Dropped(entry, t) == FALSE

\* the age of the cached history not looked at
CacheFresh_AnyAge(entry, t) == entry.hasHistory

\* line 120
CacheFresh(entry, t) ==
  entry.hasHistory /\ t - entry.lastPingAt < PollIntervalMs

\* the inflight handle not looked at
HasInflight_Dropped(entry) == FALSE

\* line 123
HasInflight(entry) == entry.inflight # NoRound

\* ---------------------------------------------------------------- snapshot
\* check_configs.name of the configs
nameOf(id) == IF id = "a" THEN ConfigNames[2] ELSE ConfigNames[1]

\* line 23 (the source text is Chinese)
UNGROUPED_DISPLAY_NAME == "ungrouped"
\* line 198 (the source text is Chinese, eight characters)
MaintenanceMessage == Text("config is in maintenance mode", 8)

\* getOfficialStatus(type): undefined, or what the official-status poller
\* holds for the provider type
OfficialStatuses == {null, <<"degraded">>}

\* lines 174-178 and 191-208: a copy of the result, with officialStatus set
\* if the poller holds one
withOfficialStatus(result, officialStatus) ==
  IF officialStatus = null THEN result
  ELSE [f \in DOMAIN result \cup {"officialStatus"} |->
          IF f = "officialStatus" THEN officialStatus[1] ELSE result[f]]

\* officialStatus set on sorted[0] itself, latest being no copy of it
mappedTimeline_InPlace(id, items, officialStatus) ==
  LET sorted == OrderByCheckedAtDesc(items)
      latest == withOfficialStatus(sorted[1], officialStatus) IN
  IF Len(sorted) = 0 THEN <<>>
  ELSE <<[id |-> id, items |-> <<latest>> \o Tail(sorted), latest |-> latest]>>

\* latest taken from the other end of the sorted items
mappedTimeline_Oldest(id, items, officialStatus) ==
  LET sorted == OrderByCheckedAtDesc(items) IN
  IF Len(sorted) = 0 THEN <<>>
  ELSE <<[id |-> id, items |-> sorted,
          latest |-> withOfficialStatus(sorted[Len(sorted)], officialStatus)]>>

\* lines 163-186, the map callback: no timeline (null, filtered at line 218)
\* or one timeline, as a sequence of length 0 or 1
mappedTimeline(id, items, officialStatus) ==
  LET sorted == OrderByCheckedAtDesc(items) IN
  IF Len(sorted) = 0 THEN <<>>
  ELSE <<[id |-> id, items |-> sorted,
          latest |-> withOfficialStatus(sorted[1], officialStatus)]>>

\* lines 188-215, the map callback
maintenanceTimeline(config, t, officialStatus) ==
  [id |-> config.id,
   items |-> <<>>,
   latest |-> withOfficialStatus(
     [id |-> config.id, name |-> nameOf(config.id), status |-> "maintenance",
      latencyMs |-> null, pingLatencyMs |-> null,
      message |-> MaintenanceMessage, checkedAt |-> t,
      groupName |-> config.groupName], officialStatus)]

RECURSIVE entriesOf(_, _)
\* the elements f[k], k in keys, one after the other; the order among the
\* keys is not looked at, the sort of line 220 replaces it
entriesOf(f, keys) ==
  IF keys = {} THEN <<>>
  ELSE LET k == CHOOSE x \in keys : TRUE
       IN <<f[k]>> \o entriesOf(f, keys \ {k})

RECURSIVE flat(_)
\* Array.prototype.flat on a sequence of sequences
flat(seqs) == IF seqs = <<>> THEN <<>> ELSE Head(seqs) \o flat(Tail(seqs))

\* line 220: the stable sort by latest.name
InsertByLatestName(sorted, timeline) ==
  LET behind == { i \in 1..Len(sorted) :
                    localeCompare(nameOf(sorted[i].latest.id),
                                  nameOf(timeline.latest.id)) <= 0 }
      k == Cardinality(behind)
  IN SubSeq(sorted, 1, k) \o <<timeline>> \o SubSeq(sorted, k + 1, Len(sorted))

RECURSIVE sortByLatestName(_)
sortByLatestName(timelines) ==
  IF timelines = <<>> THEN <<>>
  ELSE InsertByLatestName(sortByLatestName(SubSeq(timelines, 1, Len(timelines) - 1)),
                          timelines[Len(timelines)])

\* lines 163-220
providerTimelines(g, history, t, officialStatus) ==
  LET mappedTimelines ==
        flat(entriesOf([id \in DOMAIN history |->
                          mappedTimeline(id, history[id], officialStatus)],
                       DOMAIN history))
      maintenanceTimelines ==
        entriesOf([config \in maintenanceConfigs(g) |->
                     maintenanceTimeline(config, t, officialStatus)],
                  maintenanceConfigs(g))
  IN sortByLatestName(mappedTimelines \o maintenanceTimelines)

\* the newest checkedAt among the latest results, placeholders included
lastUpdated_OfLatest(timelines) ==
  LET allEntries ==
        OrderByCheckedAtDesc([i \in DOMAIN timelines |-> timelines[i].latest])
  IN IF Len(allEntries) > 0 THEN Num(allEntries[1].checkedAt) ELSE null

\* lines 222-229
lastUpdated(timelines) ==
  LET allEntries ==
        OrderByCheckedAtDesc(flat([i \in DOMAIN timelines |-> timelines[i].items]))
  IN IF Len(allEntries) > 0 THEN Num(allEntries[1].checkedAt) ELSE null

\* getPollingIntervalLabel(): the interval as a text
pollIntervalLabel == <<"every", PollIntervalMs>>

\* lines 163-241: the snapshot built from the history at instant t
GroupDashboardData(g, history, t, officialStatus) ==
  LET timelines == providerTimelines(g, history, t, officialStatus) IN
  [groupName |-> g,
   displayName |-> IF g = UNGROUPED_KEY THEN UNGROUPED_DISPLAY_NAME ELSE g,
   providerTimelines |-> timelines,
   lastUpdated |-> lastUpdated(timelines),
   total |-> Len(timelines),
   pollIntervalLabel |-> pollIntervalLabel,
   pollIntervalMs |-> PollIntervalMs,
   generatedAt |-> t]

\* a caller that has not received its answer
Waiting == [kind |-> "waiting"]

\* what the caller of call c receives with a result: null, the rejection,
\* or the snapshot built at instant t
Received(g, result, t, officialStatus) ==
  IF result.kind = "ok"
    THEN [kind |-> "data",
          data |-> GroupDashboardData(g, result.history, t, officialStatus)]
    ELSE [kind |-> result.kind]

\* the answer reaches the caller, where callers are observed
Deliver(c, g, result, t, officialStatus) ==
  IF view = NoView THEN view
  ELSE [view EXCEPT ![c] = Received(g, result, t, officialStatus)]

Returned(c, kind, history) ==
  [calls[c] EXCEPT !.pc = "done",
                   !.result = [kind |-> kind, history |-> history]]

\* lines 70-113, 150: entry, config load, group filter, null for an empty
\* group, cache entry, and the store's answer to readFilteredHistory. The
\* configs do not change, so the two awaits are one step.
LoadGroupDashboardData(c, n, g, option) ==
  /\ calls[c].pc = "idle"
  /\ \A d \in Calls : d < c => calls[d].pc # "idle"
  /\ LET started == [calls[c] EXCEPT !.node = n, !.group = g,
                                     !.mode = refreshMode(option)]
     IN calls' = [calls EXCEPT ![c] =
          IF groupConfigs(g) = {}
            THEN [started EXCEPT !.pc = "done", !.via = "none",
                                 !.result = [kind |-> "null", history |-> EmptyHistory]]
            ELSE [started EXCEPT !.pc = "decide",
                                 !.history = readFilteredHistory(g, store)]]
  /\ serial' = (serial \/ \E d \in Calls : calls[d].pc = "done")
  /\ view' = IF groupConfigs(g) = {}
               THEN Deliver(c, g, calls'[c].result, now, null)
               ELSE view
  /\ UNCHANGED <<now, store, lease, leaderUntil, cache, rounds, appendLog, probe, batch, stream, poller, client>>

\* lines 151-161, neither branch taken: the persisted history is the result
ReturnPersisted(c) ==
  /\ calls[c].pc = "decide"
  /\ ~WantsRefresh(calls[c].mode, calls[c].group, calls[c].history)
  /\ calls' = [calls EXCEPT ![c] =
       [Returned(c, "ok", calls[c].history) EXCEPT !.via = "none"]]
  /\ \E officialStatus \in OfficialStatuses :
       view' = Deliver(c, calls[c].group, calls'[c].result, now, officialStatus)
  /\ UNCHANGED <<now, store, lease, leaderUntil, cache, rounds, appendLog, serial, probe, batch, stream, poller, client>>

\* lines 116-118
RefreshEmpty(c) ==
  /\ calls[c].pc = "decide"
  /\ WantsRefresh(calls[c].mode, calls[c].group, calls[c].history)
  /\ allowedIds(calls[c].group) = {}
  /\ calls' = [calls EXCEPT ![c] =
       [Returned(c, "ok", EmptyHistory) EXCEPT !.via = "empty"]]
  /\ \E officialStatus \in OfficialStatuses :
       view' = Deliver(c, calls[c].group, calls'[c].result, now, officialStatus)
  /\ UNCHANGED <<now, store, lease, leaderUntil, cache, rounds, appendLog, serial, probe, batch, stream, poller, client>>

\* lines 119-122
RefreshCached(c) ==
  LET entry == cache[calls[c].node][calls[c].group] IN
  /\ calls[c].pc = "decide"
  /\ WantsRefresh(calls[c].mode, calls[c].group, calls[c].history)
  /\ allowedIds(calls[c].group) # {}
  /\ CacheFresh(entry, now)
  /\ calls' = [calls EXCEPT ![c] =
       [Returned(c, "ok", entry.history) EXCEPT !.via = "cached"]]
  /\ \E officialStatus \in OfficialStatuses :
       view' = Deliver(c, calls[c].group, calls'[c].result, now, officialStatus)
  /\ UNCHANGED <<now, store, lease, leaderUntil, cache, rounds, appendLog, serial, probe, batch, stream, poller, client>>

\* lines 123-125
RefreshJoin(c) ==
  LET entry == cache[calls[c].node][calls[c].group] IN
  /\ calls[c].pc = "decide"
  /\ WantsRefresh(calls[c].mode, calls[c].group, calls[c].history)
  /\ allowedIds(calls[c].group) # {}
  /\ ~CacheFresh(entry, now)
  /\ HasInflight(entry)
  /\ calls' = [calls EXCEPT ![c] =
       [calls[c] EXCEPT !.pc = "awaitInflight", !.via = "joined",
                        !.round = entry.inflight]]
  /\ UNCHANGED <<now, store, lease, leaderUntil, cache, rounds, appendLog, serial, probe, batch, stream, view, poller, client>>

\* lines 127-142: the promise is created, runProviderChecks is called,
\* the promise becomes the entry's inflight and the caller awaits it
RefreshStart(c) ==
  LET n == calls[c].node
      g == calls[c].group
      entry == cache[n][g] IN
  /\ calls[c].pc = "decide"
  /\ WantsRefresh(calls[c].mode, g, calls[c].history)
  /\ allowedIds(g) # {}
  /\ ~CacheFresh(entry, now)
  /\ ~HasInflight(entry)
  /\ \E r \in Rounds :
       /\ rounds[r].state = "free"
       /\ \A q \in Rounds : q < r => rounds[q].state # "free"
       /\ rounds' = [rounds EXCEPT ![r] =
            [FreeRound EXCEPT !.state = "probing", !.node = n, !.group = g]]
       /\ cache' = [cache EXCEPT ![n][g].inflight = r]
       /\ calls' = [calls EXCEPT ![c] =
            [calls[c] EXCEPT !.pc = "awaitInflight", !.via = "started",
                             !.round = r]]
  /\ UNCHANGED <<now, store, lease, leaderUntil, appendLog, serial, probe, batch, stream, view, poller, client>>

\* the standing of node n under the lease row at this instant
LeaseRole(n) ==
  IF lease.holder = n /\ lease.leaseExpiresAt > now THEN "leader"
  ELSE IF lease.holder # NoNode /\ lease.leaseExpiresAt > now THEN "standby"
  ELSE "unled"

\* lines 128-131: runProviderChecks resolves, appendHistory is called
RunProviderChecksDone(r) ==
  /\ rounds[r].state = "probing"
  /\ LET results == runProviderChecks(activeConfigs(rounds[r].group), now) IN
       /\ rounds' = [rounds EXCEPT ![r] =
            [rounds[r] EXCEPT !.state = "appending", !.results = results]]
       /\ appendLog' = appendLog \cup
            {[node |-> rounds[r].node, role |-> LeaseRole(rounds[r].node)]}
  /\ UNCHANGED <<now, store, lease, leaderUntil, cache, calls, serial, probe, batch, stream, view, poller, client>>

\* line 131: the store executes the insert and the prune and answers with
\* the snapshot
AppendHistoryDone(r) ==
  /\ rounds[r].state = "appending"
  /\ store' = appendHistoryStore(store, rounds[r].results)
  /\ rounds' = [rounds EXCEPT ![r] =
       [rounds[r] EXCEPT !.state = "written", !.value = loadHistory(store')]]
  /\ UNCHANGED <<now, lease, leaderUntil, cache, calls, appendLog, serial, probe, batch, stream, view, poller, client>>

\* line 131: appendHistory rejects, and so does the promise
AppendHistoryFail(r) ==
  /\ rounds[r].state = "appending"
  /\ rounds' = [rounds EXCEPT ![r] =
       [rounds[r] EXCEPT !.state = "rejected", !.finishedAt = now]]
  /\ UNCHANGED <<now, store, lease, leaderUntil, cache, calls, appendLog, serial, probe, batch, stream, view, poller, client>>

\* lastPingAt left as it was
StoreInCache_NoStamp(entry, nextHistory, t) ==
  [entry EXCEPT !.hasHistory = TRUE, !.history = nextHistory]

\* lines 135-136
StoreInCache(entry, nextHistory, t) ==
  [entry EXCEPT !.hasHistory = TRUE, !.history = nextHistory, !.lastPingAt = t]

\* lines 131, 135-137
RoundResolve(r) ==
  LET n == rounds[r].node
      g == rounds[r].group
      nextHistory == filterHistory(g, rounds[r].value) IN
  /\ rounds[r].state = "written"
  /\ cache' = [cache EXCEPT ![n][g] = StoreInCache(cache[n][g], nextHistory, now)]
  /\ rounds' = [rounds EXCEPT ![r] =
       [rounds[r] EXCEPT !.state = "resolved", !.value = nextHistory,
                         !.finishedAt = now]]
  /\ UNCHANGED <<now, store, lease, leaderUntil, calls, appendLog, serial, probe, batch, stream, view, poller, client>>

Settled(r) == rounds[r].state \in {"resolved", "rejected"}

\* a joiner that falls back to the history it read when the promise rejects
AwaitedValue_JoinerFallback(c, r) ==
  IF rounds[r].state = "resolved"
    THEN [kind |-> "ok", history |-> rounds[r].value]
    ELSE IF calls[c].via = "joined"
      THEN [kind |-> "ok", history |-> calls[c].history]
      ELSE [kind |-> "error", history |-> EmptyHistory]

\* what a caller awaiting promise r receives: its value, or its rejection
AwaitedValue(c, r) ==
  IF rounds[r].state = "resolved"
    THEN [kind |-> "ok", history |-> rounds[r].value]
    ELSE [kind |-> "error", history |-> EmptyHistory]

\* the handle cleared after the await, where a rejection does not arrive:
\* no finally block
ClearInflight_NoFinally(entry, r) ==
  IF entry.inflight = r /\ rounds[r].state = "resolved"
    THEN [entry EXCEPT !.inflight = NoRound]
    ELSE entry

\* lines 143-147: the finally block of the creator
ClearInflight(entry, r) ==
  IF entry.inflight = r THEN [entry EXCEPT !.inflight = NoRound] ELSE entry

\* lines 141-147 (the creator) and 124 (a joiner): the awaited promise has
\* settled
AwaitInflight(c) ==
  LET n == calls[c].node
      g == calls[c].group
      r == calls[c].round IN
  /\ calls[c].pc = "awaitInflight"
  /\ Settled(r)
  /\ cache' = IF calls[c].via = "started"
                THEN [cache EXCEPT ![n][g] = ClearInflight(cache[n][g], r)]
                ELSE cache
  /\ calls' = [calls EXCEPT ![c] =
       [calls[c] EXCEPT !.pc = "done", !.result = AwaitedValue(c, r)]]
  /\ \E officialStatus \in OfficialStatuses :
       view' = Deliver(c, calls[c].group, calls'[c].result, now, officialStatus)
  /\ UNCHANGED <<now, store, lease, leaderUntil, rounds, appendLog, serial, probe, batch, stream, poller, client>>

\* ------------------------------------------------------------------ lease
\* a plain write, no condition
CanAcquire_Unconditional(l, n, t) == TRUE

\* the renewal by the holder left out
CanAcquire_NoRenewal(l, n, t) ==
  \/ l.holder = NoNode
  \/ l.leaseExpiresAt <= t

\* the condition of the conditional update
CanAcquire(l, n, t) ==
  \/ l.holder = NoNode
  \/ l.leaseExpiresAt <= t
  \/ l.holder = n

\* the conditional update of the lease row and what the node keeps of it
AcquireOrRenew(n, leaseDurationMs) ==
  IF CanAcquire(lease, n, now)
    THEN /\ lease' = [holder |-> n, leaseExpiresAt |-> now + leaseDurationMs,
                      fencingToken |-> IF lease.holder = n
                                         THEN lease.fencingToken
                                         ELSE lease.fencingToken + 1]
         /\ leaderUntil' = [leaderUntil EXCEPT ![n] = now + leaseDurationMs]
    ELSE /\ lease' = lease
         /\ leaderUntil' = [leaderUntil EXCEPT ![n] = 0]

tryAcquireOrRenew(n, leaseDurationMs) ==
  /\ AcquireOrRenew(n, leaseDurationMs)
  /\ UNCHANGED <<now, store, cache, rounds, calls, appendLog, serial, probe, batch, stream, view, poller, client>>

\* the poller of node n asks for the lease on its tick
LeaseTick(n) == tryAcquireOrRenew(n, LeaseDurationMs)

\* ------------------------------------------------------------------- Next
\* the steps of the refresh closure and of its promise
RefreshSteps ==
  \/ \E c \in Calls : ReturnPersisted(c)
  \/ \E c \in Calls : RefreshEmpty(c)
  \/ \E c \in Calls : RefreshCached(c)
  \/ \E c \in Calls : RefreshJoin(c)
  \/ \E c \in Calls : RefreshStart(c)
  \/ \E r \in Rounds : RunProviderChecksDone(r)
  \/ \E r \in Rounds : AppendHistoryDone(r)
  \/ \E r \in Rounds : AppendHistoryFail(r)
  \/ \E r \in Rounds : RoundResolve(r)
  \/ \E c \in Calls : AwaitInflight(c)

\* one process serving requests
Next ==
  \/ Tick
  \/ \E c \in Calls, g \in TargetGroups, o \in RefreshOptions :
       LoadGroupDashboardData(c, "n1", g, o)
  \/ RefreshSteps

Spec == Init /\ [][Next]_vars

\* a deployment of several nodes: each polls the lease, and a request
\* reaches any of them. With one request in the deployment no promise is
\* joined and no cached refresh is met, so these two steps are never enabled.
NextCluster ==
  \/ Tick
  \/ \E n \in Nodes : LeaseTick(n)
  \/ \E n \in Nodes, g \in TargetGroups, o \in RefreshOptions :
       LoadGroupDashboardData(1, n, g, o)
  \/ ReturnPersisted(1)
  \/ RefreshEmpty(1)
  \/ RefreshStart(1)
  \/ \E r \in Rounds : RunProviderChecksDone(r)
  \/ \E r \in Rounds : AppendHistoryDone(r)
  \/ \E r \in Rounds : AppendHistoryFail(r)
  \/ \E r \in Rounds : RoundResolve(r)
  \/ AwaitInflight(1)

SpecCluster == Init /\ [][NextCluster]_vars

\* ---------------------------------------------------------- provider checks
\* lib/checks.ts lines 34-35 (lib/providers/openai.ts lines 14 and 20 repeat
\* the two values)
DEFAULT_TIMEOUT_MS == 15000
DEGRADED_THRESHOLD_MS == 6000
\* the end index of body.slice(0, 280) in extractMessage
SliceEnd == 280

\* the positions of the configs of one batch
Probes == {1, 2}
ProviderTypes == {"openai", "gemini", "anthropic"}
\* a check_configs row may carry a type the switch of checkProvider lacks
ConfigTypes == ProviderTypes \cup {"azure"}

\* the readings of Date.now() - startedAt a check may take
ElapsedMs ==
  {0, DEGRADED_THRESHOLD_MS, DEGRADED_THRESHOLD_MS + 1, DEFAULT_TIMEOUT_MS}

\* the number of characters of ${n}
Digits(n) ==
  IF n < 10 THEN 1 ELSE IF n < 100 THEN 2 ELSE IF n < 1000 THEN 3
  ELSE IF n < 10000 THEN 4 ELSE 5
Template(chars, fixedLen, n) ==
  [chars |-> chars, len |-> fixedLen + Digits(n), arg |-> n]

\* a || b on strings: the empty string is falsy
OrElse(a, b) == IF a.len > 0 THEN a ELSE b
\* undefined, read through ?. from a value that lacks the property
Absent == Text("", 0)

\* body.slice(0, end)
slice(body, end) ==
  IF body.len <= end THEN body ELSE [body EXCEPT !.len = end]

\* the response bodies of a non-2xx answer
ErrorBodies ==
  { Text("", 0),
    Text("{\"error\":{\"message\":\"quota\"}}", 29),
    Text("{\"error\":\"denied\"}", 18),
    Text("{\"message\":\"down\"}", 18),
    Text("{ \"code\": 1 }", 13),
    Text("<html>Bad Gateway</html>", 24),
    Text("<html>...a long error page...</html>", SliceEnd + 1) }

\* JSON.parse(body), read through the properties extractMessage looks at;
\* threw is the SyntaxError of a body that is not JSON
JSON_parse(body) ==
  LET value(em, e, m, s) ==
        [threw |-> FALSE, error_message |-> em, error |-> e, message |-> m,
         stringify |-> s]
  IN CASE body.chars = "{\"error\":{\"message\":\"quota\"}}" ->
            value(Text("quota", 5), Text("[object Object]", 15), Absent, body)
       [] body.chars = "{\"error\":\"denied\"}" ->
            value(Absent, Text("denied", 6), Absent, body)
       [] body.chars = "{\"message\":\"down\"}" ->
            value(Absent, Absent, Text("down", 4), body)
       [] body.chars = "{ \"code\": 1 }" ->
            value(Absent, Absent, Absent, Text("{\"code\":1}", 10))
       [] OTHER ->
            [threw |-> TRUE, error_message |-> Absent, error |-> Absent,
             message |-> Absent, stringify |-> Absent]

\* lines 503-516
extractMessage(body) ==
  IF body.len = 0 THEN Text("", 0)
  ELSE LET parsed == JSON_parse(body)
       IN IF parsed.threw
            THEN slice(body, SliceEnd)
            ELSE OrElse(parsed.error_message,
                   OrElse(parsed.error,
                     OrElse(parsed.message, parsed.stringify)))

\* what an await may reject with
Err(name, message) == [name |-> name, message |-> message]
NoError == Err("", Absent)
\* fetch() and reader.read() reject with an AbortError once the signal fired
AbortError == Err("AbortError", Text("This operation was aborted", 26))
\* a failed connection, and a rejection that carries no message
NetworkErrors ==
  { Err("TypeError", Text("fetch failed", 12)), Err("Error", Text("", 0)) }
\* the body stream breaks while it is read
StreamErrors == { Err("TypeError", Text("terminated", 10)) }
\* the openai client rejects a non-2xx answer with an error of its own
SdkStatusErrors == { Err("Error", Text("429 status code (no body)", 25)) }
\* the error the openai client rejects with after the signal fired is the
\* client's choice
SdkAbortErrors ==
  { AbortError, Err("Error", Text("Request was aborted.", 20)) }

HttpStatuses == {200, 429, 500}

\* the fixed messages of the source, which are Chinese text: chars gives
\* their meaning, len the length of the source text
\* line 272: the message of a timeout, and of an error without a message
TimeoutMessage == Text("request timed out", 4)
UnknownErrorMessage == Text("unknown error", 4)
\* line 242: a 2xx answer without a body
EmptyBodyError == Err("Error", Text("response body is empty", 5))

\* a config of the batch, and the check that runs for it
ProbeConfig(i, name, type) == [id |-> i, name |-> name, type |-> type]
NoResult == [status |-> "none"]
ReadyProbe(config) ==
  [pc |-> "ready", config |-> config, impl |-> "none", elapsed |-> 0,
   http |-> "none", code |-> 0, cause |-> "none", respondedAt |-> 0,
   latencyMs |-> null, errorBody |-> Absent, error |-> NoError,
   result |-> NoResult, timer |-> "none"]

\* the CheckResult both checks build (endpoint, model and checkedAt left out)
CheckResult(config, status, latencyMs, message) ==
  [id |-> config.id, name |-> config.name, type |-> config.type,
   status |-> status, latencyMs |-> latencyMs, message |-> message]

\* the check returns: its timer, if it has set one, is cleared in the finally
\* block
Return(checks, p, cause, result) ==
  [checks EXCEPT ![p].pc = "returned", ![p].elapsed = 0, ![p].cause = cause,
                 ![p].result = result,
                 ![p].timer = IF @ = "armed" THEN "cleared" ELSE @]

\* lines 251-252 (openai.ts lines 97-98)
status_StrictThreshold(latencyMs) ==
  IF latencyMs < DEGRADED_THRESHOLD_MS THEN "operational" ELSE "degraded"

status(latencyMs) ==
  IF latencyMs <= DEGRADED_THRESHOLD_MS THEN "operational" ELSE "degraded"

\* lines 254-257 (openai.ts lines 100-103)
message(latencyMs) ==
  IF status(latencyMs) = "degraded"
    THEN Template("slow response: ${latencyMs}ms", 10, latencyMs)
    ELSE Template("stream response ok (${latencyMs}ms)", 11, latencyMs)

\* lines 107-118: the switch on config.type; runStreamCheck creates its
\* controller, sets its timer and runs up to its fetch (lines 212-221), an
\* unknown type throws
checkProvider(p) ==
  /\ probe[p].pc = "ready"
  /\ IF probe[p].config.type \in ProviderTypes
       THEN probe' = [probe EXCEPT ![p].pc = "fetch", ![p].impl = "stream",
                                   ![p].timer = "armed"]
       ELSE probe' = [probe EXCEPT
              ![p].pc = "threw",
              ![p].error = Err("Error", Text("Unsupported provider: azure", 27))]
  /\ UNCHANGED <<now, store, lease, leaderUntil, cache, rounds, calls, appendLog,
                 serial, batch, stream, view, poller, client>>

\* providers/openai.ts lines 56-88: checkOpenAI up to the await of
\* client.chat.completions.create
checkOpenAI(p) ==
  /\ probe[p].pc = "ready"
  /\ probe[p].config.type = "openai"
  /\ probe' = [probe EXCEPT ![p].pc = "create", ![p].impl = "sdk",
                              ![p].timer = "armed"]
  /\ UNCHANGED <<now, store, lease, leaderUntil, cache, rounds, calls, appendLog,
                 serial, batch, stream, view, poller, client>>

\* the places where a check waits for the network
Awaiting == {"fetch", "errorBody", "parse", "create", "iterate"}

\* time passes while a check waits
Elapse(p, t) ==
  /\ probe[p].pc \in Awaiting
  /\ t > probe[p].elapsed
  /\ probe' = [probe EXCEPT ![p].elapsed = t]
  /\ UNCHANGED <<now, store, lease, leaderUntil, cache, rounds, calls, appendLog,
                 serial, batch, stream, view, poller, client>>

\* lines 270-283: the catch block of runStreamCheck
runStreamCheck_catch_Rethrows(checks, p, err, cause) ==
  [checks EXCEPT ![p].pc = "threw", ![p].elapsed = 0, ![p].cause = cause,
                 ![p].error = err]

runStreamCheck_catch_KeepsLatency(checks, p, err, cause) ==
  Return([checks EXCEPT ![p].error = err], p, cause,
    CheckResult(checks[p].config, "failed", Num(checks[p].elapsed),
      IF err.name = "AbortError" THEN TimeoutMessage
      ELSE OrElse(err.message, UnknownErrorMessage)))

runStreamCheck_catch(checks, p, err, cause) ==
  Return([checks EXCEPT ![p].error = err], p, cause,
    CheckResult(checks[p].config, "failed", null,
      IF err.name = "AbortError" THEN TimeoutMessage
      ELSE OrElse(err.message, UnknownErrorMessage)))

\* response.ok
ok_Always(code) == TRUE

ok(code) == code >= 200 /\ code <= 299

\* lines 217-248: fetch resolves. A non-2xx answer takes its latency and goes
\* on to read the body; a 2xx answer without a body throws into the catch
\* block; otherwise the parser starts to read
FetchResolve(p, code, hasBody) ==
  /\ probe[p].pc = "fetch"
  /\ LET answered == [probe EXCEPT ![p].code = code,
                        ![p].http = IF code \in 200..299 THEN "2xx" ELSE "non2xx",
                        ![p].respondedAt = probe[p].elapsed]
     IN IF ~ok(code)
          THEN probe' = [answered EXCEPT ![p].pc = "errorBody",
                           ![p].latencyMs = Num(probe[p].elapsed)]
          ELSE IF ~hasBody
            THEN probe' = runStreamCheck_catch(answered, p,
                            EmptyBodyError, "nobody")
            ELSE probe' = [answered EXCEPT ![p].pc = "parse"]
  /\ UNCHANGED <<now, store, lease, leaderUntil, cache, rounds, calls, appendLog,
                 serial, batch, stream, view, poller, client>>

\* the cause of a rejection, by the await it reaches
CauseAt(pc) ==
  CASE pc = "fetch" -> "network"
    [] pc = "errorBody" -> "bodyread"
    [] pc = "create" -> "network"
    [] OTHER -> "stream"

\* fetch, response.text() or the parser's reader.read() rejects
AwaitReject(p, err) ==
  /\ probe[p].pc \in {"fetch", "errorBody", "parse"}
  /\ probe' = runStreamCheck_catch(probe, p, err, CauseAt(probe[p].pc))
  /\ UNCHANGED <<now, store, lease, leaderUntil, cache, rounds, calls, appendLog,
                 serial, batch, stream, view, poller, client>>

\* one controller for the batch: the timer of a check aborts every check
\* that waits
TimeoutAbort_Shared(p) ==
  LET waiting == { q \in Probes : probe[q].pc \in {"fetch", "errorBody", "parse"} }
      aborted(checks, q) ==
        IF q \in waiting
          THEN runStreamCheck_catch(checks, q, AbortError, "abort")
          ELSE checks
  IN /\ probe[p].pc \in {"fetch", "errorBody", "parse"}
     /\ probe[p].elapsed >= DEFAULT_TIMEOUT_MS
     /\ probe' = aborted(aborted(probe, 1), 2)
     /\ UNCHANGED <<now, store, lease, leaderUntil, cache, rounds, calls, appendLog,
                    serial, batch, stream, view, poller, client>>

\* lines 212-213: the timer of the check fires no earlier than
\* DEFAULT_TIMEOUT_MS and aborts the signal of the check's own controller;
\* the pending await rejects with an AbortError
TimeoutAbort(p) ==
  /\ probe[p].pc \in {"fetch", "errorBody", "parse"}
  /\ probe[p].elapsed >= DEFAULT_TIMEOUT_MS
  /\ probe' = runStreamCheck_catch(probe, p, AbortError, "abort")
  /\ UNCHANGED <<now, store, lease, leaderUntil, cache, rounds, calls, appendLog,
                 serial, batch, stream, view, poller, client>>

\* lines 225-238: the body of a non-2xx answer has been read
ErrorBodyResolve(p, errorBody) ==
  /\ probe[p].pc = "errorBody"
  /\ probe' = Return([probe EXCEPT ![p].errorBody = errorBody], p, "status",
       CheckResult(probe[p].config, "failed", probe[p].latencyMs,
         OrElse(extractMessage(errorBody),
                Template("HTTP ${response.status}", 5, probe[p].code))))
  /\ UNCHANGED <<now, store, lease, leaderUntil, cache, rounds, calls, appendLog,
                 serial, batch, stream, view, poller, client>>

\* lines 248-269: the parser has read the stream to its end
ParseStreamResolve(p) ==
  /\ probe[p].pc = "parse"
  /\ LET latencyMs == probe[p].elapsed
     IN probe' = Return(probe, p, "none",
          CheckResult(probe[p].config, status(latencyMs), Num(latencyMs),
                      message(latencyMs)))
  /\ UNCHANGED <<now, store, lease, leaderUntil, cache, rounds, calls, appendLog,
                 serial, batch, stream, view, poller, client>>

\* providers/openai.ts lines 116-131: the catch block of checkOpenAI
checkOpenAI_catch(checks, p, err, cause) ==
  Return([checks EXCEPT ![p].error = err], p, cause,
    CheckResult(checks[p].config, "failed", null,
      IF err.name = "AbortError" THEN TimeoutMessage
      ELSE OrElse(err.message, UnknownErrorMessage)))

\* providers/openai.ts lines 78-88: the client answers with a stream (2xx)
CreateResolve(p) ==
  /\ probe[p].pc = "create"
  /\ probe' = [probe EXCEPT ![p].pc = "iterate", ![p].http = "2xx",
                 ![p].code = 200, ![p].respondedAt = probe[p].elapsed]
  /\ UNCHANGED <<now, store, lease, leaderUntil, cache, rounds, calls, appendLog,
                 serial, batch, stream, view, poller, client>>

\* the client rejects: no connection, or a non-2xx answer
CreateReject(p, err) ==
  /\ probe[p].pc = "create"
  /\ LET answered ==
           IF err \in SdkStatusErrors
             THEN [probe EXCEPT ![p].http = "non2xx", ![p].code = 429,
                                ![p].respondedAt = probe[p].elapsed]
             ELSE probe
     IN probe' = checkOpenAI_catch(answered, p, err,
                   IF err \in SdkStatusErrors THEN "status" ELSE "network")
  /\ UNCHANGED <<now, store, lease, leaderUntil, cache, rounds, calls, appendLog,
                 serial, batch, stream, view, poller, client>>

\* providers/openai.ts lines 91-115: the for await loop has read every chunk
IterateResolve(p) ==
  /\ probe[p].pc = "iterate"
  /\ LET latencyMs == probe[p].elapsed
     IN probe' = Return(probe, p, "none",
          CheckResult(probe[p].config, status(latencyMs), Num(latencyMs),
                      message(latencyMs)))
  /\ UNCHANGED <<now, store, lease, leaderUntil, cache, rounds, calls, appendLog,
                 serial, batch, stream, view, poller, client>>

\* the stream breaks inside the for await loop
IterateReject(p, err) ==
  /\ probe[p].pc = "iterate"
  /\ probe' = checkOpenAI_catch(probe, p, err, "stream")
  /\ UNCHANGED <<now, store, lease, leaderUntil, cache, rounds, calls, appendLog,
                 serial, batch, stream, view, poller, client>>

\* providers/openai.ts line 60: the timer aborts the signal handed to the
\* client
SdkTimeoutAbort(p, err) ==
  /\ probe[p].pc \in {"create", "iterate"}
  /\ probe[p].elapsed >= DEFAULT_TIMEOUT_MS
  /\ probe' = checkOpenAI_catch(probe, p, err, "abort")
  /\ UNCHANGED <<now, store, lease, leaderUntil, cache, rounds, calls, appendLog,
                 serial, batch, stream, view, poller, client>>

\* ------------------------------------------------------- runProviderChecks
\* Array.prototype.sort is stable: a result goes behind the ones it does not
\* precede
InsertByName(sorted, r) ==
  LET behind == { i \in 1..Len(sorted) : localeCompare(sorted[i].name, r.name) <= 0 }
      k == Cardinality(behind)
  IN SubSeq(sorted, 1, k) \o <<r>> \o SubSeq(sorted, k + 1, Len(sorted))

RECURSIVE sortByName(_)
sortByName(results) ==
  IF results = <<>> THEN <<>>
  ELSE InsertByName(sortByName(SubSeq(results, 1, Len(results) - 1)),
                    results[Len(results)])

\* the configs of the batch: the positions that hold a check
configsOf(checks) == { p \in Probes : checks[p].pc # "unused" }

\* lines 87-99: the catch block of the map callback
RunProviderChecksCatch_Rethrows(p) ==
  /\ batch.pc = "mapping"
  /\ probe[p].pc = "threw"
  /\ probe' = [probe EXCEPT ![p].pc = "rejected"]
  /\ UNCHANGED <<now, store, lease, leaderUntil, cache, rounds, calls, appendLog,
                 serial, batch, stream, view, poller, client>>

RunProviderChecksCatch(p) ==
  /\ batch.pc = "mapping"
  /\ probe[p].pc = "threw"
  /\ probe' = Return(probe, p, "threw",
       CheckResult(probe[p].config, "failed", null,
                   OrElse(probe[p].error.message, UnknownErrorMessage)))
  /\ UNCHANGED <<now, store, lease, leaderUntil, cache, rounds, calls, appendLog,
                 serial, batch, stream, view, poller, client>>

\* lines 83-104: Promise.all rejects with the first callback that rejects,
\* and resolves once every callback has returned; the results are sorted
RunProviderChecksSettle ==
  /\ batch.pc = "mapping"
  /\ IF \E p \in configsOf(probe) : probe[p].pc = "rejected"
       THEN batch' = [pc |-> "rejected", results |-> <<>>]
       ELSE /\ \A p \in configsOf(probe) : probe[p].pc = "returned"
            /\ LET n == Cardinality(configsOf(probe))
               IN batch' = [pc |-> "returned",
                            results |-> sortByName([i \in 1..n |-> probe[i].result])]
  /\ UNCHANGED <<now, store, lease, leaderUntil, cache, rounds, calls, appendLog,
                 serial, probe, stream, view, poller, client>>

\* ------------------------------------------------- specifications: checks
\* one check of one config, called through checkProvider or, for an openai
\* config, through checkOpenAI of lib/providers/openai.ts
InitCheck ==
  /\ SnapshotInit
  /\ \E type \in ConfigTypes :
       probe = [p \in Probes |->
                  IF p = 1 THEN ReadyProbe(ProbeConfig(1, ConfigNames[1], type))
                  ELSE NoProbe]
  /\ batch = NoBatch
  /\ stream = NoStream
  /\ view = NoView
  /\ poller = NoPoller
  /\ client = NoClient

NextCheck ==
  \/ checkProvider(1)
  \/ checkOpenAI(1)
  \/ \E t \in ElapsedMs : Elapse(1, t)
  \/ \E code \in HttpStatuses, hasBody \in BOOLEAN : FetchResolve(1, code, hasBody)
  \/ \E err \in NetworkErrors \cup StreamErrors : AwaitReject(1, err)
  \/ TimeoutAbort(1)
  \/ \E errorBody \in ErrorBodies : ErrorBodyResolve(1, errorBody)
  \/ ParseStreamResolve(1)
  \/ CreateResolve(1)
  \/ \E err \in NetworkErrors \cup SdkStatusErrors : CreateReject(1, err)
  \/ IterateResolve(1)
  \/ \E err \in StreamErrors : IterateReject(1, err)
  \/ \E err \in SdkAbortErrors : SdkTimeoutAbort(1, err)

SpecCheck == InitCheck /\ [][NextCheck]_vars

\* one runProviderChecks call over up to two configs
InitBatch ==
  /\ SnapshotInit
  /\ \E n \in 0..Cardinality(Probes) :
       \E names \in [1..n -> {ConfigNames[i] : i \in 1..Len(ConfigNames)}],
          types \in [1..n -> ConfigTypes] :
         probe = [p \in Probes |->
                    IF p <= n THEN ReadyProbe(ProbeConfig(p, names[p], types[p]))
                    ELSE NoProbe]
  /\ batch = [pc |-> "mapping", results |-> <<>>]
  /\ stream = NoStream
  /\ view = NoView
  /\ poller = NoPoller
  /\ client = NoClient

NextBatch ==
  \/ \E p \in Probes : checkProvider(p)
  \/ \E p \in Probes : Elapse(p, DEFAULT_TIMEOUT_MS)
  \/ \E p \in Probes, code \in {200, 500}, hasBody \in BOOLEAN :
       FetchResolve(p, code, hasBody)
  \/ \E p \in Probes, err \in NetworkErrors : AwaitReject(p, err)
  \/ \E p \in Probes : TimeoutAbort(p)
  \/ \E p \in Probes : ErrorBodyResolve(p, Text("", 0))
  \/ \E p \in Probes : ParseStreamResolve(p)
  \/ \E p \in Probes : RunProviderChecksCatch(p)
  \/ RunProviderChecksSettle

SpecBatch == InitBatch /\ [][NextBatch]_vars

\* the same batch with time passing, the timers firing when due and the
\* event loop running every continuation that is ready; no answer of the
\* network is assumed
SpecTimers ==
  /\ InitBatch
  /\ [][NextBatch]_vars
  /\ \A p \in Probes :
       /\ WF_vars(checkProvider(p))
       /\ WF_vars(Elapse(p, DEFAULT_TIMEOUT_MS))
       /\ WF_vars(TimeoutAbort(p))
       /\ WF_vars(RunProviderChecksCatch(p))

\* --------------------------------------------------------- stream parsers
\* A response body is a sequence of tokens: pieces of text that a chunk
\* boundary does not cut. A JSON object is two tokens, the line prefix
\* "data: " is two tokens, so a boundary may fall inside either.
NL == "\n"
SP == " "
DataPrefix == <<"da", "ta: ">>
DONE == "[DONE]"
JsonNull == "null"
\* the opening brace of an object that is never closed
Truncated == "{"

\* {"choices":[{"delta":{"content":"A"}}]}
Chat(x) ==
  <<IF x = "A" THEN "{\"choices\":[{\"delta\":{\"content\":\"A\""
               ELSE "{\"choices\":[{\"delta\":{\"content\":\"B\"", "}}]}">>
\* {"type":"content_block_delta","delta":{"text":"A"}}
ContentBlockDelta(x) ==
  <<IF x = "A" THEN "{\"type\":\"content_block_delta\",\"delta\":{\"text\":\"A\""
               ELSE "{\"type\":\"content_block_delta\",\"delta\":{\"text\":\"B\"", "}}">>
\* an event of another type that carries a delta.text all the same
ContentBlockStart ==
  <<"{\"type\":\"content_block_start\",\"delta\":{\"text\":\"X\"", "}}">>
\* {"candidates":[{"content":{"parts":[{"text":"A"}]}}]}
Candidate(x) ==
  <<IF x = "A" THEN "{\"candidates\":[{\"content\":{\"parts\":[{\"text\":\"A\""
               ELSE "{\"candidates\":[{\"content\":{\"parts\":[{\"text\":\"B\"", "}]}}]}">>

Contents == {"A", "B"}

\* line.trim(): the line without the blanks at its ends
RECURSIVE trimStart(_)
trimStart(line) ==
  IF line # <<>> /\ Head(line) = SP THEN trimStart(Tail(line)) ELSE line
RECURSIVE trimEnd(_)
trimEnd(line) ==
  IF line # <<>> /\ line[Len(line)] = SP
    THEN trimEnd(SubSeq(line, 1, Len(line) - 1)) ELSE line
trim(line) == trimEnd(trimStart(line))

\* text.split("\n")
RECURSIVE split(_)
split(text) ==
  IF \A i \in 1..Len(text) : text[i] # NL THEN <<text>>
  ELSE LET k == CHOOSE i \in 1..Len(text) :
                  text[i] = NL /\ \A j \in 1..(i - 1) : text[j] # NL
       IN <<SubSeq(text, 1, k - 1)>> \o split(SubSeq(text, k + 1, Len(text)))

\* lines.filter((line) => line.trim())
RECURSIVE filterNonBlank(_)
filterNonBlank(lines) ==
  IF lines = <<>> THEN <<>>
  ELSE IF trim(Head(lines)) = <<>> THEN filterNonBlank(Tail(lines))
  ELSE <<Head(lines)>> \o filterNonBlank(Tail(lines))

\* line.startsWith("data: ") and line.slice(6)
startsWithData(line) ==
  Len(line) >= Len(DataPrefix) /\ SubSeq(line, 1, Len(DataPrefix)) = DataPrefix
sliceData(line) == SubSeq(line, Len(DataPrefix) + 1, Len(line))

\* JSON.parse(data), read through the paths the parsers follow: kind is
\* "SyntaxError" for text that is not JSON, "null" for the JSON value null
JsonValue(kind, type, content, text, candidate) ==
  [kind |-> kind, type |-> type, content |-> content, text |-> text,
   candidate |-> candidate]
parseJSON(data) ==
  LET json == trim(data)
  IN IF \E x \in Contents : json = Chat(x)
       THEN JsonValue("object", "", (CHOOSE x \in Contents : json = Chat(x)), "", "")
     ELSE IF \E x \in Contents : json = ContentBlockDelta(x)
       THEN JsonValue("object", "content_block_delta", "",
                      (CHOOSE x \in Contents : json = ContentBlockDelta(x)), "")
     ELSE IF json = ContentBlockStart
       THEN JsonValue("object", "content_block_start", "", "X", "")
     ELSE IF \E x \in Contents : json = Candidate(x)
       THEN JsonValue("object", "", "", "",
                      (CHOOSE x \in Contents : json = Candidate(x)))
     ELSE IF json = <<JsonNull>>
       THEN JsonValue("null", "", "", "", "")
     ELSE JsonValue("SyntaxError", "", "", "", "")

\* what a try block leaves behind: the text it appended, or the exception
\* it raised (JSON.parse on bad text, a property read on null)
Raised == [threw |-> TRUE, content |-> ""]
Appended(content) == [threw |-> FALSE, content |-> content]

\* lines 310-312: parsed.choices?.[0]?.delta?.content || ""
tryOpenAI(data) ==
  LET parsed == parseJSON(data)
  IN IF parsed.kind \in {"SyntaxError", "null"} THEN Raised
     ELSE Appended(parsed.content)

\* lines 343-349
tryAnthropic_AnyType(data) ==
  LET parsed == parseJSON(data)
  IN IF parsed.kind \in {"SyntaxError", "null"} THEN Raised
     ELSE Appended(parsed.text)

tryAnthropic(data) ==
  LET parsed == parseJSON(data)
  IN IF parsed.kind \in {"SyntaxError", "null"} THEN Raised
     ELSE IF parsed.type = "content_block_delta" THEN Appended(parsed.text)
     ELSE Appended("")

\* lines 380-382 and 395-397
tryGemini(data) ==
  LET parsed == parseJSON(data)
  IN IF parsed.kind \in {"SyntaxError", "null"} THEN Raised
     ELSE Appended(parsed.candidate)

\* the empty catch blocks (lines 313-315, 350-352, 383-385, 398-400)
catch_Rethrows(outcome) == outcome

catch(outcome) == [threw |-> FALSE, content |-> outcome.content]

\* fullResponse += content
Plus(fullResponse, content) ==
  IF content = "" THEN fullResponse ELSE Append(fullResponse, content)

\* a parser about to read the first chunk of a body; cutInLine and
\* cutAtNewline record where chunk boundaries have fallen
Parsing(parser, text) ==
  [pc |-> "reading", parser |-> parser, text |-> text, pos |-> 0,
   buffer |-> <<>>, fullResponse |-> <<>>, cutInLine |-> FALSE,
   cutAtNewline |-> FALSE]

\* reader.read() hands over the next k tokens of the body
chunkOf(s, k) == SubSeq(s.text, s.pos + 1, s.pos + k)
Read(s, k) ==
  [s EXCEPT !.pos = s.pos + k,
            !.cutInLine = s.cutInLine \/ (k > 0 /\ s.pos > 0 /\ s.text[s.pos] # NL),
            !.cutAtNewline =
              s.cutAtNewline \/ (k > 0 /\ s.pos > 0 /\ s.text[s.pos] = NL)]

\* the state of a loop over lines: the text so far, a return met, a throw
Loop(fullResponse) == [fullResponse |-> fullResponse, done |-> FALSE, threw |-> FALSE]

\* lines 303-317: the for loop of parseOpenAIStream
RECURSIVE forOpenAI(_, _)
forOpenAI(lines, loop) ==
  IF lines = <<>> \/ loop.done \/ loop.threw THEN loop
  ELSE IF ~startsWithData(Head(lines)) THEN forOpenAI(Tail(lines), loop)
  ELSE IF sliceData(Head(lines)) = <<DONE>> THEN [loop EXCEPT !.done = TRUE]
  ELSE LET outcome == catch(tryOpenAI(sliceData(Head(lines))))
       IN IF outcome.threw THEN [loop EXCEPT !.threw = TRUE]
          ELSE forOpenAI(Tail(lines),
                 [loop EXCEPT !.fullResponse = Plus(@, outcome.content)])

\* lines 339-354: the for loop of parseAnthropicStream
RECURSIVE forAnthropic(_, _)
forAnthropic(lines, loop) ==
  IF lines = <<>> \/ loop.threw THEN loop
  ELSE IF ~startsWithData(Head(lines)) THEN forAnthropic(Tail(lines), loop)
  ELSE LET outcome == catch(tryAnthropic(sliceData(Head(lines))))
       IN IF outcome.threw THEN [loop EXCEPT !.threw = TRUE]
          ELSE forAnthropic(Tail(lines),
                 [loop EXCEPT !.fullResponse = Plus(@, outcome.content)])

\* lines 378-386: the for loop of parseGeminiStream
RECURSIVE forGemini(_, _)
forGemini(jsonObjects, loop) ==
  IF jsonObjects = <<>> \/ loop.threw THEN loop
  ELSE LET outcome == catch(tryGemini(Head(jsonObjects)))
       IN IF outcome.threw THEN [loop EXCEPT !.threw = TRUE]
          ELSE forGemini(Tail(jsonObjects),
                 [loop EXCEPT !.fullResponse = Plus(@, outcome.content)])

\* where the parser stands after a loop
After(s, loop) ==
  [s EXCEPT !.fullResponse = loop.fullResponse,
            !.pc = IF loop.threw THEN "threw"
                   ELSE IF loop.done THEN "returned" ELSE "reading"]

\* lines 296-318: one round of the while loop of parseOpenAIStream
parseOpenAIStream_read(k) ==
  /\ stream.pc = "reading"
  /\ stream.parser = "openai"
  /\ k \in 0..(Len(stream.text) - stream.pos)
  /\ LET lines == filterNonBlank(split(chunkOf(stream, k)))
     IN stream' = After(Read(stream, k), forOpenAI(lines, Loop(stream.fullResponse)))
  /\ UNCHANGED <<now, store, lease, leaderUntil, cache, rounds, calls, appendLog,
                 serial, probe, batch, view, poller, client>>

\* the body has ended: lines 298 and 320
parseOpenAIStream_done ==
  /\ stream.pc = "reading"
  /\ stream.parser = "openai"
  /\ stream.pos = Len(stream.text)
  /\ stream' = [stream EXCEPT !.pc = "returned"]
  /\ UNCHANGED <<now, store, lease, leaderUntil, cache, rounds, calls, appendLog,
                 serial, probe, batch, view, poller, client>>

\* lines 331-355: one round of the while loop of parseAnthropicStream
parseAnthropicStream_read(k) ==
  /\ stream.pc = "reading"
  /\ stream.parser = "anthropic"
  /\ k \in 0..(Len(stream.text) - stream.pos)
  /\ LET lines == split(stream.buffer \o chunkOf(stream, k))
         loop == forAnthropic(SubSeq(lines, 1, Len(lines) - 1),
                              Loop(stream.fullResponse))
     IN stream' = [After(Read(stream, k), loop) EXCEPT !.buffer = lines[Len(lines)]]
  /\ UNCHANGED <<now, store, lease, leaderUntil, cache, rounds, calls, appendLog,
                 serial, probe, batch, view, poller, client>>

\* the body has ended: lines 333 and 357
parseAnthropicStream_done ==
  /\ stream.pc = "reading"
  /\ stream.parser = "anthropic"
  /\ stream.pos = Len(stream.text)
  /\ stream' = [stream EXCEPT !.pc = "returned"]
  /\ UNCHANGED <<now, store, lease, leaderUntil, cache, rounds, calls, appendLog,
                 serial, probe, batch, view, poller, client>>

\* lines 368-390: one round of the while loop of parseGeminiStream
parseGeminiStream_read(k) ==
  /\ stream.pc = "reading"
  /\ stream.parser = "gemini"
  /\ k \in 0..(Len(stream.text) - stream.pos)
  /\ LET jsonObjects == filterNonBlank(split(stream.buffer \o chunkOf(stream, k)))
         loop == forGemini(SubSeq(jsonObjects, 1, Len(jsonObjects) - 1),
                           Loop(stream.fullResponse))
     IN stream' = [After(Read(stream, k), loop) EXCEPT
                     !.buffer = IF jsonObjects = <<>> THEN <<>>
                                ELSE jsonObjects[Len(jsonObjects)]]
  /\ UNCHANGED <<now, store, lease, leaderUntil, cache, rounds, calls, appendLog,
                 serial, probe, batch, view, poller, client>>

\* the body has ended: lines 370 and 392-403, the rest of the buffer is parsed
parseGeminiStream_done ==
  /\ stream.pc = "reading"
  /\ stream.parser = "gemini"
  /\ stream.pos = Len(stream.text)
  /\ LET loop == IF trim(stream.buffer) # <<>>
                   THEN forGemini(<<stream.buffer>>, Loop(stream.fullResponse))
                   ELSE Loop(stream.fullResponse)
     IN stream' = [After(stream, loop) EXCEPT
                     !.pc = IF loop.threw THEN "threw" ELSE "returned"]
  /\ UNCHANGED <<now, store, lease, leaderUntil, cache, rounds, calls, appendLog,
                 serial, probe, batch, view, poller, client>>

\* ------------------------------------------------ specification: parsers
\* the lines a body is made of, per framing
OpenAILines ==
  { DataPrefix \o Chat("A"), DataPrefix \o Chat("B"), DataPrefix \o <<DONE>>,
    DataPrefix \o <<JsonNull>>, DataPrefix \o <<Truncated>>, <<>> }
AnthropicLines ==
  { DataPrefix \o ContentBlockDelta("A"), DataPrefix \o ContentBlockDelta("B"),
    DataPrefix \o ContentBlockStart, DataPrefix \o <<JsonNull>>,
    DataPrefix \o <<Truncated>>, <<"event: ping">>, <<>> }
GeminiLines ==
  { Candidate("A"), Candidate("B"), <<JsonNull>>, <<Truncated>>, <<>> }
LinesOf(parser) ==
  CASE parser = "openai" -> OpenAILines
    [] parser = "anthropic" -> AnthropicLines
    [] OTHER -> GeminiLines
Parsers == {"openai", "anthropic", "gemini"}

\* the lines joined by newlines; terminated says whether the last line ends
\* with one
RECURSIVE join(_, _)
join(lines, terminated) ==
  IF lines = <<>> THEN <<>>
  ELSE IF Len(lines) = 1
    THEN Head(lines) \o (IF terminated THEN <<NL>> ELSE <<>>)
  ELSE Head(lines) \o <<NL>> \o join(Tail(lines), terminated)

\* the bodies of up to MaxLines lines
Bodies(parser) ==
  { join(lines, terminated) :
      lines \in UNION { [1..n -> LinesOf(parser)] : n \in 0..MaxLines },
      terminated \in BOOLEAN }

InitStream ==
  /\ SnapshotInit
  /\ probe = NoProbe
  /\ batch = NoBatch
  /\ \E parser \in Parsers : \E text \in Bodies(parser) :
       stream = Parsing(parser, text)
  /\ view = NoView
  /\ poller = NoPoller
  /\ client = NoClient

NextStream ==
  \/ \E k \in 0..MaxChunk : parseOpenAIStream_read(k)
  \/ parseOpenAIStream_done
  \/ \E k \in 0..MaxChunk : parseAnthropicStream_read(k)
  \/ parseAnthropicStream_done
  \/ \E k \in 0..MaxChunk : parseGeminiStream_read(k)
  \/ parseGeminiStream_done

SpecStream == InitStream /\ [][NextStream]_vars

\* ----------------------------------------------- specification: the store
\* the checked_at values of the rows persisted before the first step
PersistedAt == {0, 1}

\* the rows a config may hold at the start: up to limit_per_config rows left
\* by the last prune and one row of a write whose prune did not run, in any
\* order of insertion
PersistedRows(id) ==
  UNION { [1..n -> { [id |-> id, checkedAt |-> t] : t \in PersistedAt }] :
            n \in 0..(LimitPerConfig + 1) }

\* appendHistory, first statement: the rows of the batch are inserted
InsertHistory(r) ==
  /\ rounds[r].state = "appending"
  /\ store' = InsertRows(store, rounds[r].results)
  /\ rounds' = [rounds EXCEPT ![r] = [rounds[r] EXCEPT !.state = "inserted"]]
  /\ UNCHANGED <<now, lease, leaderUntil, cache, calls, appendLog, serial, probe, batch, stream, view, poller, client>>

\* appendHistory, second statement: prune_check_history, and the snapshot
\* that is returned
PruneHistory(r) ==
  /\ rounds[r].state = "inserted"
  /\ store' = prune_check_history(store)
  /\ rounds' = [rounds EXCEPT ![r] =
       [rounds[r] EXCEPT !.state = "written", !.value = loadHistory(store')]]
  /\ UNCHANGED <<now, lease, leaderUntil, cache, calls, appendLog, serial, probe, batch, stream, view, poller, client>>

\* the writers of a deployment: the round of each node's poller
WriterNode(r) == IF r = 1 THEN "n1" ELSE "n2"
WriterRounds == { r \in Rounds : r <= Cardinality(Nodes) }
WriterGroup == "g1"

\* every writer has a probe round under way; the table holds what earlier
\* rounds left, also for a config that is under maintenance by now
InitStore ==
  /\ now = 0
  /\ \E a \in PersistedRows("a"), m \in PersistedRows("m") :
       /\ Len(m) <= 1
       /\ store = [id \in ConfigIds |->
                     IF id = "a" THEN a ELSE IF id = "m" THEN m ELSE <<>>]
  /\ lease = [holder |-> NoNode, leaseExpiresAt |-> 0, fencingToken |-> 0]
  /\ leaderUntil = [n \in Nodes |-> 0]
  /\ cache = [n \in Nodes |-> [g \in KeyedGroups |-> NewCacheEntry]]
  /\ rounds = [r \in Rounds |->
                 IF r \in WriterRounds
                   THEN [FreeRound EXCEPT !.state = "probing",
                                          !.node = WriterNode(r),
                                          !.group = WriterGroup]
                   ELSE FreeRound]
  /\ calls = [c \in Calls |-> NoCall]
  /\ appendLog = {}
  /\ serial = FALSE
  /\ probe = NoProbe
  /\ batch = NoBatch
  /\ stream = NoStream
  /\ view = NoView
  /\ poller = NoPoller
  /\ client = NoClient

\* the writers insert and prune, one reader loads the persisted history
NextStore ==
  \/ Tick
  \/ \E r \in Rounds : RunProviderChecksDone(r)
  \/ \E r \in Rounds : InsertHistory(r)
  \/ \E r \in Rounds : PruneHistory(r)
  \/ LoadGroupDashboardData(1, "n1", WriterGroup, "never")
  \/ ReturnPersisted(1)

SpecStore == InitStore /\ [][NextStore]_vars

\* ------------------------------------------------ specification: the page
\* the group names a request may carry: those of TargetGroups and the key of
\* the configs without a group
PageGroups == TargetGroups \cup {UNGROUPED_KEY}

\* line 150: loadHistory rejects, and with it the call
LoadHistoryFail(c, n, g, option) ==
  /\ calls[c].pc = "idle"
  /\ \A d \in Calls : d < c => calls[d].pc # "idle"
  /\ groupConfigs(g) # {}
  /\ calls' = [calls EXCEPT ![c] =
       [calls[c] EXCEPT !.node = n, !.group = g, !.mode = refreshMode(option),
                        !.pc = "done", !.via = "none",
                        !.result = [kind |-> "error", history |-> EmptyHistory]]]
  /\ serial' = (serial \/ \E d \in Calls : calls[d].pc = "done")
  /\ view' = Deliver(c, g, calls'[c].result, now, null)
  /\ UNCHANGED <<now, store, lease, leaderUntil, cache, rounds, appendLog, probe, batch, stream, poller, client>>

\* the process starts over a table that earlier rounds have filled, also for
\* a config that is under maintenance by now; every caller is observed
InitPage ==
  /\ now = 0
  /\ \E a \in PersistedRows("a"), m \in PersistedRows("m") :
       /\ Len(a) <= LimitPerConfig
       /\ Len(m) <= 1
       /\ store = [id \in ConfigIds |->
                     IF id = "a" THEN OrderByCheckedAtDesc(a)
                     ELSE IF id = "m" THEN m ELSE <<>>]
  /\ lease = [holder |-> NoNode, leaseExpiresAt |-> 0, fencingToken |-> 0]
  /\ leaderUntil = [n \in Nodes |-> 0]
  /\ cache = [n \in Nodes |-> [g \in KeyedGroups |-> NewCacheEntry]]
  /\ rounds = [r \in Rounds |-> FreeRound]
  /\ calls = [c \in Calls |-> NoCall]
  /\ appendLog = {}
  /\ serial = FALSE
  /\ probe = NoProbe
  /\ batch = NoBatch
  /\ stream = NoStream
  /\ view = [c \in Calls |-> Waiting]
  /\ poller = NoPoller
  /\ client = NoClient

\* one request served by a process: with no second request no promise is
\* joined and no cached refresh is met
NextPage ==
  \/ Tick
  \/ \E g \in PageGroups, o \in RefreshOptions :
       LoadGroupDashboardData(1, "n1", g, o)
  \/ \E g \in PageGroups, o \in RefreshOptions :
       LoadHistoryFail(1, "n1", g, o)
  \/ ReturnPersisted(1)
  \/ RefreshEmpty(1)
  \/ RefreshStart(1)
  \/ \E r \in Rounds : RunProviderChecksDone(r)
  \/ \E r \in Rounds : AppendHistoryDone(r)
  \/ \E r \in Rounds : AppendHistoryFail(r)
  \/ \E r \in Rounds : RoundResolve(r)
  \/ AwaitInflight(1)

SpecPage == InitPage /\ [][NextPage]_vars

\* ---------------------------------------------- specification: the groups
\* check_configs.group_name: none (null or empty, falsy alike), or a name;
\* the names in the order of their UTF-16 code units, which is the order of
\* Array.prototype.sort without a comparator ("G" < "_" < "g")
NoGroupName == ""
CodeUnitOrder == <<"G2", UNGROUPED_KEY, "g1", "g2">>
GroupNames == { CodeUnitOrder[i] : i \in 1..Len(CodeUnitOrder) }

codeUnits(name) == CHOOSE i \in 1..Len(CodeUnitOrder) : CodeUnitOrder[i] = name

RECURSIVE sort(_)
\* [...groupSet].sort()
sort(names) ==
  IF names = {} THEN <<>>
  ELSE LET first == CHOOSE x \in names :
                      \A y \in names : codeUnits(x) <= codeUnits(y)
       IN <<first>> \o sort(names \ {first})

\* the key added whether or not a config lacks a group
getAvailableGroups_AlwaysKey(allConfigs) ==
  sort(({ allConfigs[i].groupName : i \in DOMAIN allConfigs }
          \ {NoGroupName}) \cup {UNGROUPED_KEY})

\* lines 42-59
getAvailableGroups(allConfigs) ==
  LET groupSet == { allConfigs[i].groupName : i \in DOMAIN allConfigs }
                    \ {NoGroupName}
      hasUngrouped == \E i \in DOMAIN allConfigs :
                        allConfigs[i].groupName = NoGroupName
  IN sort(IF hasUngrouped THEN groupSet \cup {UNGROUPED_KEY} ELSE groupSet)

\* the rows loadProviderConfigsFromDB may return to getAvailableGroups
ConfigLists ==
  UNION { [1..n -> { [groupName |-> name] :
                       name \in GroupNames \cup {NoGroupName} }] :
            n \in 0..MaxConfigs }

\* line 43: the configs are loaded
InitGroups ==
  /\ SnapshotInit
  /\ probe = NoProbe
  /\ batch = NoBatch
  /\ stream = NoStream
  /\ \E allConfigs \in ConfigLists :
       view = [kind |-> "loaded", allConfigs |-> allConfigs]
  /\ poller = NoPoller
  /\ client = NoClient

\* lines 45-58: the list is built and returned
GetAvailableGroups ==
  /\ view.kind = "loaded"
  /\ view' = [kind |-> "groups", allConfigs |-> view.allConfigs,
              groups |-> getAvailableGroups(view.allConfigs)]
  /\ UNCHANGED <<now, store, lease, leaderUntil, cache, rounds, calls, appendLog, serial, probe, batch, stream, poller, client>>

NextGroups == GetAvailableGroups

SpecGroups == InitGroups /\ [][NextGroups]_vars

\* ------------------------------------------------ specification: the keys
\* loadGroupDashboardData(key), lines 76-90, for a key of the list: the
\* positions of the configs the filter keeps, and null if it keeps none
FilterGroupConfigs(key) ==
  /\ view.kind = "groups"
  /\ \E i \in DOMAIN view.groups : view.groups[i] = key
  /\ LET kept == { i \in DOMAIN view.allConfigs :
                     isInTargetGroup(view.allConfigs[i], key) }
     IN view' = [kind |-> "opened", allConfigs |-> view.allConfigs,
                 groups |-> view.groups, key |-> key, groupConfigs |-> kept,
                 result |-> IF kept = {} THEN "null" ELSE "data"]
  /\ UNCHANGED <<now, store, lease, leaderUntil, cache, rounds, calls, appendLog, serial, probe, batch, stream, poller, client>>

\* the list of groups is read, and one of its keys is opened
NextKeys ==
  \/ GetAvailableGroups
  \/ \E key \in GroupNames : FilterGroupConfigs(key)

SpecKeys == InitGroups /\ [][NextKeys]_vars

\* ------------------------------------------- specification: reading only
\* requests that only read the persisted history, while the poller of
\* another node completes a probe round and appends
InitNever ==
  /\ now = 0
  /\ \E a \in PersistedRows("a") :
       /\ Len(a) <= 1
       /\ store = [id \in ConfigIds |-> IF id = "a" THEN a ELSE <<>>]
  /\ lease = [holder |-> NoNode, leaseExpiresAt |-> 0, fencingToken |-> 0]
  /\ leaderUntil = [n \in Nodes |-> 0]
  /\ cache = [n \in Nodes |-> [g \in KeyedGroups |-> NewCacheEntry]]
  /\ rounds = [r \in Rounds |->
                 IF r = 1
                   THEN [FreeRound EXCEPT !.state = "probing",
                                          !.node = WriterNode(Cardinality(Nodes)),
                                          !.group = WriterGroup]
                   ELSE FreeRound]
  /\ calls = [c \in Calls |-> NoCall]
  /\ appendLog = {}
  /\ serial = FALSE
  /\ probe = NoProbe
  /\ batch = NoBatch
  /\ stream = NoStream
  /\ view = [c \in Calls |-> Waiting]
  /\ poller = NoPoller
  /\ client = NoClient

NextNever ==
  \/ Tick
  \/ \E c \in Calls, g \in KeyedGroups :
       LoadGroupDashboardData(c, "n1", g, "never")
  \/ \E c \in Calls : ReturnPersisted(c)
  \/ \E r \in Rounds : RunProviderChecksDone(r)
  \/ \E r \in Rounds : AppendHistoryDone(r)

SpecNever == InitNever /\ [][NextNever]_vars

\* ------------------------------------------ specification: refreshing
\* requests with mode "always" served by one process, while the poller of
\* another node completes a probe round and appends; every caller is
\* observed
InitAlways ==
  /\ now = 0
  /\ store = [id \in ConfigIds |-> <<>>]
  /\ lease = [holder |-> NoNode, leaseExpiresAt |-> 0, fencingToken |-> 0]
  /\ leaderUntil = [n \in Nodes |-> 0]
  /\ cache = [n \in Nodes |-> [g \in KeyedGroups |-> NewCacheEntry]]
  /\ rounds = [r \in Rounds |->
                 IF r = 1
                   THEN [FreeRound EXCEPT !.state = "probing",
                                          !.node = WriterNode(Cardinality(Nodes)),
                                          !.group = WriterGroup]
                   ELSE FreeRound]
  /\ calls = [c \in Calls |-> NoCall]
  /\ appendLog = {}
  /\ serial = FALSE
  /\ probe = NoProbe
  /\ batch = NoBatch
  /\ stream = NoStream
  /\ view = [c \in Calls |-> Waiting]
  /\ poller = NoPoller
  /\ client = NoClient

NextAlways ==
  \/ Tick
  \/ \E c \in Calls, g \in KeyedGroups :
       LoadGroupDashboardData(c, "n1", g, "always")
  \/ \E c \in Calls : RefreshEmpty(c)
  \/ \E c \in Calls : RefreshCached(c)
  \/ \E c \in Calls : RefreshJoin(c)
  \/ \E c \in Calls : RefreshStart(c)
  \/ \E r \in Rounds : RunProviderChecksDone(r)
  \/ \E r \in Rounds : AppendHistoryDone(r)
  \/ \E r \in Rounds : RoundResolve(r)
  \/ \E c \in Calls : AwaitInflight(c)

SpecAlways == InitAlways /\ [][NextAlways]_vars

\* ------------------------------------- specification: the first paint
\* the groups a page is rendered for: one probed config beside one under
\* maintenance, and two probed configs
PaintGroups == {"g1", "g3"}

\* the process starts over a table in which each probed config has a row of
\* an earlier round or none; every caller is observed
InitPaint ==
  /\ now = 0
  /\ \E at \in [allowedIds("g1") \cup allowedIds("g3") ->
                  { Num(t) : t \in PersistedAt } \cup {null}] :
       store = [id \in ConfigIds |->
                  IF id \in DOMAIN at /\ at[id] # null
                    THEN <<[id |-> id, checkedAt |-> at[id][1]]>>
                    ELSE <<>>]
  /\ lease = [holder |-> NoNode, leaseExpiresAt |-> 0, fencingToken |-> 0]
  /\ leaderUntil = [n \in Nodes |-> 0]
  /\ cache = [n \in Nodes |-> [g \in PaintGroups |-> NewCacheEntry]]
  /\ rounds = [r \in Rounds |-> FreeRound]
  /\ calls = [c \in Calls |-> NoCall]
  /\ appendLog = {}
  /\ serial = FALSE
  /\ probe = NoProbe
  /\ batch = NoBatch
  /\ stream = NoStream
  /\ view = [c \in Calls |-> Waiting]
  /\ poller = NoPoller
  /\ client = NoClient

\* one request with mode "missing", given or by default
NextPaint ==
  \/ Tick
  \/ \E g \in PaintGroups, o \in {"missing", "unset"} :
       LoadGroupDashboardData(1, "n1", g, o)
  \/ ReturnPersisted(1)
  \/ RefreshStart(1)
  \/ \E r \in Rounds : RunProviderChecksDone(r)
  \/ \E r \in Rounds : AppendHistoryDone(r)
  \/ \E r \in Rounds : RoundResolve(r)
  \/ AwaitInflight(1)

SpecPaint == InitPaint /\ [][NextPaint]_vars

\* ---------------------------------------------- specification: the poller
\* the loop of a node before its first tick: the timer is armed for instant
\* 0; attempts, failed and written record the instants of the ticks begun,
\* failed after the lease was acquired, and written
IdlePoller ==
  [pc |-> "idle", nextTickAt |-> 0, tickAt |-> 0, results |-> {},
   attempts |-> {}, failed |-> {}, written |-> {}]

\* the configs a tick probes: enabled and not under maintenance
pollerConfigs == { cfg \in loadProviderConfigsFromDB : ~cfg.is_maintenance }

\* a failed tick that starts the next one at once
TickFailed_RetryNow(p, t) ==
  [p EXCEPT !.pc = "idle", !.results = {}, !.nextTickAt = t,
            !.failed = @ \cup {p.tickAt}]

\* a tick that fails entirely: logged, the loop is idle until the timer
\* fires again
TickFailed(p, t) ==
  [p EXCEPT !.pc = "idle", !.results = {}, !.failed = @ \cup {p.tickAt}]

\* time passes up to the instant the next timer is due
PollerClock ==
  /\ \A n \in Nodes : now < poller[n].nextTickAt
  /\ Tick

\* the interval timer fires: the next tick is one interval later
TimerFire(n) ==
  /\ poller[n].pc = "idle"
  /\ now = poller[n].nextTickAt
  /\ poller' = [poller EXCEPT ![n] =
       [poller[n] EXCEPT !.pc = "acquire", !.tickAt = now,
                         !.nextTickAt = now + PollIntervalMs,
                         !.attempts = @ \cup {now}]]
  /\ UNCHANGED <<now, store, lease, leaderUntil, cache, rounds, calls, appendLog, serial, probe, batch, stream, view, client>>

\* AcquireLease: the leader goes on to the checks, a standby is done
PollerAcquire(n) ==
  /\ poller[n].pc = "acquire"
  /\ AcquireOrRenew(n, LeaseDurationMs)
  /\ poller' = [poller EXCEPT ![n].pc =
       IF CanAcquire(lease, n, now) THEN "checking" ELSE "idle"]
  /\ UNCHANGED <<now, store, cache, rounds, calls, appendLog, serial, probe, batch, stream, view, client>>

\* RunChecks: every check has returned its result
PollerChecksDone(n) ==
  /\ poller[n].pc = "checking"
  /\ poller' = [poller EXCEPT ![n] =
       [poller[n] EXCEPT !.pc = "writing",
                         !.results = runProviderChecks(pollerConfigs, now)]]
  /\ UNCHANGED <<now, store, lease, leaderUntil, cache, rounds, calls, appendLog, serial, probe, batch, stream, view, client>>

\* WriteHistory: the batch is appended by the lease holder
PollerWrite(n) ==
  /\ poller[n].pc = "writing"
  /\ LeaseRole(n) = "leader"
  /\ store' = appendHistoryStore(store, poller[n].results)
  /\ appendLog' = appendLog \cup {[node |-> n, role |-> LeaseRole(n)]}
  /\ poller' = [poller EXCEPT ![n] =
       [poller[n] EXCEPT !.pc = "idle", !.results = {},
                         !.written = @ \cup {poller[n].tickAt}]]
  /\ UNCHANGED <<now, lease, leaderUntil, cache, rounds, calls, serial, probe, batch, stream, view, client>>

\* the store is unavailable for the write
PollerWriteFail(n) ==
  /\ poller[n].pc = "writing"
  /\ LeaseRole(n) = "leader"
  /\ poller' = [poller EXCEPT ![n] = TickFailed(poller[n], now)]
  /\ UNCHANGED <<now, store, lease, leaderUntil, cache, rounds, calls, appendLog, serial, probe, batch, stream, view, client>>

\* the lease was lost while the checks ran
PollerLeaseLost(n) ==
  /\ poller[n].pc = "writing"
  /\ LeaseRole(n) # "leader"
  /\ poller' = [poller EXCEPT ![n] = TickFailed(poller[n], now)]
  /\ UNCHANGED <<now, store, lease, leaderUntil, cache, rounds, calls, appendLog, serial, probe, batch, stream, view, client>>

InitPoller ==
  /\ SnapshotInit
  /\ probe = NoProbe
  /\ batch = NoBatch
  /\ stream = NoStream
  /\ view = NoView
  /\ poller = [n \in Nodes |-> IdlePoller]
  /\ client = NoClient

NextPoller ==
  \/ PollerClock
  \/ \E n \in Nodes : TimerFire(n)
  \/ \E n \in Nodes : PollerAcquire(n)
  \/ \E n \in Nodes : PollerChecksDone(n)
  \/ \E n \in Nodes : PollerWrite(n)
  \/ \E n \in Nodes : PollerWriteFail(n)
  \/ \E n \in Nodes : PollerLeaseLost(n)

\* the timers and the event loop of a node keep running
SpecPoller == InitPoller /\ [][NextPoller]_vars /\ WF_vars(NextPoller)

\* ------------------------------------- specification: the dashboard client
\* components/dashboard-view.tsx. A snapshot is known by the fetch that
\* brought it (0: initialData) and by its pollIntervalMs, which the server
\* may send as 0
Snapshot(fetch, pollIntervalMs) ==
  [fetch |-> fetch, pollIntervalMs |-> pollIntervalMs]

\* lines 50-52 after the first render; fetching and parsing count the
\* refresh calls that wait at line 74 and at line 78; ticks, started,
\* skipped and failed record the timer firings, the fetches begun, the
\* firings that returned at line 69 and the fetches that ended in the catch
\* block
MountedClient ==
  [pc |-> "mounted", data |-> Snapshot(0, PollIntervalMs),
   isRefreshing |-> FALSE, lockRef |-> FALSE, fetching |-> 0, parsing |-> 0,
   ticks |-> 0, started |-> 0, skipped |-> {}, failed |-> {}]

\* refresh without the test of the lock
refresh_NoLock(c) ==
  [c EXCEPT !.lockRef = TRUE, !.isRefreshing = TRUE, !.fetching = @ + 1,
            !.started = @ + 1]

\* lines 67-74: refresh() up to the await of fetch
refresh(c) ==
  IF c.lockRef
    THEN [c EXCEPT !.skipped = @ \cup {c.ticks}]
    ELSE [c EXCEPT !.lockRef = TRUE, !.isRefreshing = TRUE, !.fetching = @ + 1,
                   !.started = @ + 1]

\* lines 80-81: the error is logged
refresh_catch(c) == [c EXCEPT !.failed = @ \cup {c.started}]

\* the lock released after setData only
refresh_finally_AfterSetData(c) ==
  IF c.started \in c.failed
    THEN [c EXCEPT !.isRefreshing = FALSE]
    ELSE [c EXCEPT !.isRefreshing = FALSE, !.lockRef = FALSE]

\* lines 82-85
refresh_finally(c) == [c EXCEPT !.isRefreshing = FALSE, !.lockRef = FALSE]

\* lines 116-124: the interval timer, armed while data.pollIntervalMs is
\* positive, fires and calls refresh()
IntervalTick ==
  /\ client.pc = "mounted"
  /\ client.data.pollIntervalMs > 0
  /\ client.ticks < MaxTicks
  /\ client' = refresh([client EXCEPT !.ticks = @ + 1])
  /\ UNCHANGED <<now, store, lease, leaderUntil, cache, rounds, calls, appendLog, serial, probe, batch, stream, view, poller>>

\* lines 74-77: fetch resolves; a non-OK response throws
ClientFetchResolve(isOk) ==
  /\ client.pc = "mounted"
  /\ client.fetching > 0
  /\ LET answered == [client EXCEPT !.fetching = @ - 1]
     IN client' = IF isOk
                    THEN [answered EXCEPT !.parsing = @ + 1]
                    ELSE refresh_finally(refresh_catch(answered))
  /\ UNCHANGED <<now, store, lease, leaderUntil, cache, rounds, calls, appendLog, serial, probe, batch, stream, view, poller>>

\* line 74: fetch rejects
ClientFetchReject ==
  /\ client.pc = "mounted"
  /\ client.fetching > 0
  /\ client' = refresh_finally(refresh_catch([client EXCEPT !.fetching = @ - 1]))
  /\ UNCHANGED <<now, store, lease, leaderUntil, cache, rounds, calls, appendLog, serial, probe, batch, stream, view, poller>>

\* lines 78-79: the body is parsed and displayed
JsonResolve(pollIntervalMs) ==
  /\ client.pc = "mounted"
  /\ client.parsing > 0
  /\ client' = refresh_finally(
       [client EXCEPT !.parsing = @ - 1,
                      !.data = Snapshot(client.started, pollIntervalMs)])
  /\ UNCHANGED <<now, store, lease, leaderUntil, cache, rounds, calls, appendLog, serial, probe, batch, stream, view, poller>>

\* line 78: response.json() rejects
JsonReject ==
  /\ client.pc = "mounted"
  /\ client.parsing > 0
  /\ client' = refresh_finally(refresh_catch([client EXCEPT !.parsing = @ - 1]))
  /\ UNCHANGED <<now, store, lease, leaderUntil, cache, rounds, calls, appendLog, serial, probe, batch, stream, view, poller>>

InitClient ==
  /\ SnapshotInit
  /\ probe = NoProbe
  /\ batch = NoBatch
  /\ stream = NoStream
  /\ view = NoView
  /\ poller = NoPoller
  /\ client = MountedClient

NextClient ==
  \/ IntervalTick
  \/ \E isOk \in BOOLEAN : ClientFetchResolve(isOk)
  \/ ClientFetchReject
  \/ \E pollIntervalMs \in {0, PollIntervalMs} : JsonResolve(pollIntervalMs)
  \/ JsonReject

\* the interval timer of the tab keeps firing while it is armed
SpecClient == InitClient /\ [][NextClient]_vars /\ WF_vars(IntervalTick)

\* ------------------------------------------------------- properties: rounds
\* the probe rounds a node has started for a group's cache key
RoundsOf(n, g) ==
  { r \in Rounds : rounds[r].state # "free" /\ rounds[r].node = n /\ rounds[r].group = g }

Running(r) == rounds[r].state \in {"probing", "appending", "written"}
Resolved(r) == rounds[r].state = "resolved"

\* the calls that went through refreshHistory for a node's cache key and got
\* past its first test
RefreshCalls(n, g) ==
  { c \in Calls : /\ calls[c].node = n
                  /\ calls[c].group = g
                  /\ calls[c].via \in {"cached", "joined", "started"} }

\* a successful refresh of the key completed less than pollIntervalMs ago
RecentSuccess(n, g) ==
  \E r \in RoundsOf(n, g) : Resolved(r) /\ now - rounds[r].finishedAt < PollIntervalMs

\* the last successful round of the key (rounds of a key resolve in order)
IsLastSuccess(r, n, g) ==
  /\ r \in RoundsOf(n, g)
  /\ Resolved(r)
  /\ \A q \in RoundsOf(n, g) : Resolved(q) => q <= r

\* C1: per cache key at most one probe round is running, the entry's inflight
\* handle is that round, and while the handle is set no newer round of the
\* key exists (none was started over it).
C1_SingleFlight ==
  \A n \in Nodes, g \in KeyedGroups :
    LET running == { r \in RoundsOf(n, g) : Running(r) } IN
      /\ Cardinality(running) <= 1
      /\ \A r \in running : cache[n][g].inflight = r
      /\ cache[n][g].inflight # NoRound =>
           /\ cache[n][g].inflight \in RoundsOf(n, g)
           /\ \A r \in RoundsOf(n, g) : r <= cache[n][g].inflight

\* a caller has joined the running round another caller started
C1_Witness ==
  \E c, d \in Calls :
    /\ calls[c].via = "started" /\ calls[c].pc = "awaitInflight"
    /\ calls[d].via = "joined" /\ calls[d].pc = "awaitInflight"
    /\ calls[c].round = calls[d].round
    /\ Running(calls[c].round)

\* all calls of the behaviour overlapped, asked for a refresh of one key,
\* and have returned
ConcurrentRefreshesDone(n, g) ==
  /\ ~serial
  /\ \A c \in Calls : calls[c].pc = "done" /\ c \in RefreshCalls(n, g)

C3_SameOutcome ==
  \A c, d \in Calls :
    ( /\ calls[c].pc = "done" /\ calls[d].pc = "done"
      /\ calls[c].via \in {"started", "joined"}
      /\ calls[d].via \in {"started", "joined"}
      /\ calls[c].round = calls[d].round )
    => calls[c].result = calls[d].result

\* a creator and a joiner of one rejected promise have both returned
C3_Witness ==
  \E c, d \in Calls :
    /\ calls[c].pc = "done" /\ calls[d].pc = "done"
    /\ calls[c].via = "started" /\ calls[d].via = "joined"
    /\ calls[c].round = calls[d].round
    /\ rounds[calls[c].round].state = "rejected"

\* C4, the step: a refresh request met by a success younger than
\* pollIntervalMs returns the history that success cached, starts no round
\* and writes nothing.
C4_FreshStep ==
  \A c \in Calls :
    ( /\ calls[c].pc = "decide"
      /\ calls'[c] # calls[c]
      /\ WantsRefresh(calls[c].mode, calls[c].group, calls[c].history)
      /\ RecentSuccess(calls[c].node, calls[c].group) )
    => /\ rounds' = rounds
       /\ store' = store
       /\ calls'[c].pc = "done"
       /\ \E r \in Rounds :
            /\ IsLastSuccess(r, calls[c].node, calls[c].group)
            /\ calls'[c].result = [kind |-> "ok", history |-> rounds[r].value]

\* C4, the consequence: two rounds of one key never resolve less than
\* pollIntervalMs apart.
C4_Spacing ==
  \A n \in Nodes, g \in KeyedGroups :
    \A r, q \in RoundsOf(n, g) :
      (r < q /\ Resolved(r) /\ Resolved(q))
        => rounds[q].finishedAt - rounds[r].finishedAt >= PollIntervalMs

\* C4: a refresh request within pollIntervalMs of the last success is served
\* from the cache, and successful rounds of a key are pollIntervalMs apart.
C4_RateLimit == [][C4_FreshStep]_vars /\ []C4_Spacing

\* a request was served from the cache within the interval of a success
C4_Witness ==
  \E c \in Calls :
    /\ calls[c].pc = "done" /\ calls[c].via = "cached"
    /\ calls[c].mode = "always"
    /\ RecentSuccess(calls[c].node, calls[c].group)

\* ------------------------------------------------ properties: refresh modes
AlwaysOnActive(c) ==
  calls[c].mode = "always" /\ allowedIds(calls[c].group) # {}

C5_ReturnStep ==
  \A c \in Calls :
    ( /\ calls[c].pc # "done"
      /\ calls'[c].pc = "done"
      /\ calls'[c].mode = "always"
      /\ allowedIds(calls'[c].group) # {} )
    => \/ /\ calls[c].pc = "awaitInflight"
          /\ calls[c].via \in {"started", "joined"}
          /\ calls[c].round \in RoundsOf(calls[c].node, calls[c].group)
          /\ Settled(calls[c].round)
          /\ calls'[c].result =
               IF Resolved(calls[c].round)
                 THEN [kind |-> "ok", history |-> rounds[calls[c].round].value]
                 ELSE [kind |-> "error", history |-> EmptyHistory]
       \/ /\ calls[c].pc = "decide"
          /\ calls'[c].via = "cached"
          /\ RecentSuccess(calls[c].node, calls[c].group)
          /\ \E r \in Rounds :
               /\ IsLastSuccess(r, calls[c].node, calls[c].group)
               /\ calls'[c].result = [kind |-> "ok", history |-> rounds[r].value]

Requested(c) == calls[c].via \in {"empty", "cached", "joined", "started"}

\* C6: a "missing" call goes through refreshHistory exactly when the history
\* it read, filtered to the active ids, is empty and the group has an active
\* config; otherwise it returns the history it read and has no round.
C6_MissingRefreshesIffEmpty ==
  \A c \in Calls :
    ( /\ calls[c].mode = "missing"
      /\ calls[c].pc \in {"awaitInflight", "done"}
      /\ groupConfigs(calls[c].group) # {} )
    => /\ Requested(c) <=>
            (DOMAIN calls[c].history = {} /\ allowedIds(calls[c].group) # {})
       /\ ~Requested(c) =>
            /\ calls[c].pc = "done"
            /\ calls[c].round = NoRound
            /\ calls[c].result = [kind |-> "ok", history |-> calls[c].history]

\* one "missing" call found no history and started a round, the next found
\* the history that round wrote and returned it as it was
C6_Witness ==
  \E c, d \in Calls :
    /\ calls[c].mode = "missing" /\ calls[c].via = "started"
    /\ calls[d].mode = "missing" /\ calls[d].via = "none"
    /\ calls[d].pc = "done"
    /\ calls[d].group = calls[c].group
    /\ DOMAIN calls[d].history # {}
    /\ calls[d].result.history = calls[d].history

\* a step of a "never" call leaves every cache entry, the store and the
\* rounds as they were, and the call holds no round
C7_NeverStep ==
  \A c \in Calls :
    (calls'[c].mode = "never" /\ calls'[c] # calls[c])
      => /\ UNCHANGED <<cache, store, rounds, appendLog>>
         /\ calls'[c].round = NoRound
         /\ calls'[c].via \in {"", "none"}

\* C7: a "never" call runs no probe, calls no appendHistory and leaves the
\* cache entries (history, lastPingAt, inflight) unchanged, in every step it
\* takes.
C7_NeverIsReadOnly == [][C7_NeverStep]_vars

\* a "never" call that read an empty history returned while another
\* caller's round for the same key was in flight
C7_Witness ==
  \E c \in Calls, r \in Rounds :
    /\ calls[c].mode = "never" /\ calls[c].pc = "done"
    /\ calls[c].result = [kind |-> "ok", history |-> EmptyHistory]
    /\ allowedIds(calls[c].group) # {}
    /\ r \in RoundsOf(calls[c].node, calls[c].group)
    /\ Running(r)
    /\ cache[calls[c].node][calls[c].group].inflight = r

\* --------------------------------------------------------- properties: lease
\* C8 as claimed: no node calls appendHistory while another node holds the
\* unexpired lease (a standby node never appends).
C8_StandbyNeverAppends ==
  \A e \in appendLog : e.role # "standby"

\* node n considers itself the leader at this instant
ConsidersItselfLeader(n) == leaderUntil[n] > now

\* C9: at every instant at most one node considers itself the leader, and
\* that node is the holder of the unexpired lease row.
C9_OneLeader ==
  /\ \A n, m \in Nodes :
       (ConsidersItselfLeader(n) /\ ConsidersItselfLeader(m)) => n = m
  /\ \A n \in Nodes :
       ConsidersItselfLeader(n) =>
         /\ lease.holder = n
         /\ lease.leaseExpiresAt = leaderUntil[n]

\* the lease went from one node to another after it expired, and the former
\* holder has since been refused
C9_Witness ==
  \E n, m \in Nodes :
    /\ n # m
    /\ lease.fencingToken >= 2
    /\ lease.holder = n
    /\ ConsidersItselfLeader(n)
    /\ leaderUntil[m] = 0

\* a step that changes the lease row is an acquisition by a node for which
\* the row was unheld, expired or its own, and sets holder and expiry; a node
\* is refused only while another node holds the unexpired row, and the row is
\* then left as it was
C10_LeaseStep ==
  /\ lease' # lease =>
       \E n \in Nodes :
         /\ lease.holder = NoNode \/ lease.leaseExpiresAt <= now \/ lease.holder = n
         /\ lease'.holder = n
         /\ lease'.leaseExpiresAt = now + LeaseDurationMs
         /\ leaderUntil'[n] = now + LeaseDurationMs
  /\ \A n \in Nodes :
       leaderUntil'[n] # leaderUntil[n] =>
         IF leaderUntil'[n] = 0
           THEN /\ lease.holder \notin {NoNode, n}
                /\ lease.leaseExpiresAt > now
                /\ lease' = lease
           ELSE /\ lease.holder = NoNode \/ lease.leaseExpiresAt <= now \/ lease.holder = n
                /\ lease' = [lease EXCEPT !.holder = n,
                                          !.leaseExpiresAt = now + LeaseDurationMs,
                                          !.fencingToken = lease'.fencingToken]

\* C10: tryAcquireOrRenew succeeds only on a row that is unheld, expired or
\* the caller's own and then sets holder and expiry to now + d; it refuses
\* only against another node's unexpired row, which it leaves unchanged.
C10_ConditionalWrite == [][C10_LeaseStep]_vars

\* the holder has renewed its lease: a later expiry under the same token
C10_Witness ==
  \E n \in Nodes :
    /\ lease.holder = n
    /\ lease.fencingToken = 1
    /\ lease.leaseExpiresAt > LeaseDurationMs
    /\ leaderUntil[n] = lease.leaseExpiresAt

\* ------------------------------------------------- properties: one check
\* the checks that have returned a CheckResult
ReturnedChecks == { p \in Probes : probe[p].pc = "returned" }
\* a check that ran runStreamCheck or the checkOpenAI of providers/openai.ts
Ran(p) == probe[p].pc # "unused" /\ probe[p].impl \in {"stream", "sdk"}
\* the check answered with "operational" or "degraded"
Healthy(p) == probe[p].result.status \in {"operational", "degraded"}
\* the response was 2xx and the stream was read to its end
FullyConsumed(p) == probe[p].http = "2xx" /\ probe[p].cause = "none"

\* C11: a provider check never throws: whatever the network call does
\* (non-2xx, missing body, stream read error, timeout abort, network error),
\* the check returns a CheckResult, and every such failure carries status
\* "failed" and a non-empty message
C11_NeverThrows ==
  \A p \in Probes :
    Ran(p) =>
      /\ probe[p].pc # "threw"
      /\ (probe[p].pc = "returned" /\ probe[p].cause # "none")
           => /\ probe[p].result.status = "failed"
              /\ probe[p].result.message.len > 0

\* a 2xx answer without a body came back as a failed result
C11_Witness ==
  \E p \in ReturnedChecks :
    /\ Ran(p)
    /\ probe[p].cause = "nobody"
    /\ probe[p].result.status = "failed"
    /\ probe[p].result.message = EmptyBodyError.message

\* ---------------------------------------------- properties: runProviderChecks
\* the results the batch returned for the config at position p
ResultsFor(p) == { i \in DOMAIN batch.results : batch.results[i].id = p }

\* C12: runProviderChecks returns exactly one CheckResult per input config
\* whatever each provider's check does: a failure or a thrown error (an
\* unsupported provider type included) becomes that provider's own "failed"
\* result, the results of the other providers are neither removed nor
\* changed, and the batch itself never rejects
C12_OneResultPerConfig ==
  /\ batch.pc # "rejected"
  /\ \A p \in Probes : probe[p].pc # "rejected"
  /\ batch.pc = "returned" =>
       /\ Len(batch.results) = Cardinality(configsOf(probe))
       /\ \A p \in configsOf(probe) :
            /\ Cardinality(ResultsFor(p)) = 1
            /\ \A i \in ResultsFor(p) : batch.results[i] = probe[p].result
            /\ probe[p].cause # "none" => probe[p].result.status = "failed"

\* the batch returned two results, sorted by name against the order of the
\* configs: the second config's check succeeded, the first config's type is
\* unsupported
C12_Witness ==
  /\ batch.pc = "returned"
  /\ Len(batch.results) = 2
  /\ batch.results[1].id = 2
  /\ batch.results[1].status = "operational"
  /\ probe[1].cause = "threw"
  /\ batch.results[2].status = "failed"

\* C13: after a 2xx response whose stream was fully consumed, status is
\* "operational" when latencyMs <= 6000 and "degraded" when latencyMs > 6000
\* (6000 itself is operational), and latencyMs is not negative
C13_LatencyClassifies ==
  \A p \in ReturnedChecks :
    (Ran(p) /\ FullyConsumed(p)) =>
      /\ probe[p].result.latencyMs # null
      /\ probe[p].result.latencyMs[1] >= 0
      /\ probe[p].result.latencyMs[1] <= 6000
           => probe[p].result.status = "operational"
      /\ probe[p].result.latencyMs[1] > 6000
           => probe[p].result.status = "degraded"

\* a check that took exactly 6000 ms returned "operational"
C13_Witness ==
  \E p \in ReturnedChecks :
    /\ FullyConsumed(p)
    /\ probe[p].result.latencyMs = Num(6000)
    /\ probe[p].result.status = "operational"

\* C14 as stated: for all provider types a probe's status is operational or
\* degraded exactly when the HTTP response was 2xx, and degraded exactly
\* when latencyMs > 6000
C14_HealthyIff2xx ==
  \A p \in ReturnedChecks :
    Ran(p) =>
      /\ Healthy(p) <=> probe[p].http = "2xx"
      /\ probe[p].result.status = "degraded"
           <=> (probe[p].result.latencyMs # null
                  /\ probe[p].result.latencyMs[1] > 6000)

\* C14 amended: a probe's status is operational or degraded exactly when the
\* response was 2xx and its stream was read to the end, and degraded exactly
\* when, besides, latencyMs > 6000
C14_HealthyIffConsumed ==
  \A p \in ReturnedChecks :
    Ran(p) =>
      /\ Healthy(p) <=> FullyConsumed(p)
      /\ probe[p].result.status = "degraded"
           <=> (FullyConsumed(p) /\ probe[p].result.latencyMs # null
                  /\ probe[p].result.latencyMs[1] > 6000)

\* a 2xx response whose stream broke while it was read came back "failed"
C14_Witness ==
  \E p \in ReturnedChecks :
    /\ probe[p].http = "2xx"
    /\ probe[p].cause = "stream"
    /\ probe[p].result.status = "failed"

\* the message C15 expects for an error body: its JSON error.message when it
\* has one, else the raw body cut to 280 characters
C15_ExpectedMessage(body) ==
  LET parsed == JSON_parse(body)
  IN IF ~parsed.threw /\ parsed.error_message.len > 0
       THEN parsed.error_message
       ELSE slice(body, 280)

\* C15: for every provider type a non-2xx response yields status "failed",
\* a non-null latencyMs equal to the time elapsed until the error response,
\* and as message the body's JSON error.message when present, otherwise the
\* raw body truncated to at most 280 characters
C15_Non2xxResult ==
  \A p \in ReturnedChecks :
    (Ran(p) /\ probe[p].http = "non2xx") =>
      /\ probe[p].result.status = "failed"
      /\ probe[p].result.latencyMs = Num(probe[p].respondedAt)
      /\ probe[p].result.message = C15_ExpectedMessage(probe[p].errorBody)

\* the checks that ended in a network error, the timer's abort or a broken
\* stream
Broken(p) == probe[p].cause \in {"network", "abort", "stream"}

ParserReturned(parser) == stream.pc = "returned" /\ stream.parser = parser
\* the tokens of the body
BodyTokens == { stream.text[i] : i \in 1..Len(stream.text) }
\* every line of the body ends with a newline
Terminated(text) == text = <<>> \/ text[Len(text)] = NL

\* C17: whatever the chunks hold (malformed JSON, JSON values that are not
\* objects such as null, empty chunks, truncated fragments), each of the
\* three framing parsers returns normally with the text of the events it
\* could parse, and never throws because of chunk content
C17_ParsersNeverThrow ==
  /\ stream.pc # "threw"
  /\ stream.pc = "returned" =>
       \A i \in 1..Len(stream.fullResponse) : stream.fullResponse[i] \in Contents

\* a parser returned text from a body that also held the JSON value null,
\* read in chunks that cut a line
C17_Witness ==
  /\ stream.pc = "returned"
  /\ JsonNull \in BodyTokens
  /\ stream.cutInLine
  /\ stream.fullResponse # <<>>

\* the lines ahead of the first "data: [DONE]" line
RECURSIVE beforeDone(_)
beforeDone(lines) ==
  IF lines = <<>> \/ Head(lines) = DataPrefix \o <<DONE>> THEN <<>>
  ELSE <<Head(lines)>> \o beforeDone(Tail(lines))

\* choices[0].delta.content of the well-formed events among the lines
RECURSIVE chatContents(_)
chatContents(lines) ==
  IF lines = <<>> THEN <<>>
  ELSE (IF \E x \in Contents : Head(lines) = DataPrefix \o Chat(x)
          THEN <<CHOOSE x \in Contents : Head(lines) = DataPrefix \o Chat(x)>>
          ELSE <<>>) \o chatContents(Tail(lines))

\* C18: the OpenAI-style parser is tolerant of split chunks: for any stream
\* of newline-delimited "data: <json>" events and any way of splitting it
\* into chunks, parseOpenAIStream returns the concatenation, in order, of
\* choices[0].delta.content of the well-formed events ahead of the
\* "data: [DONE]" line, and ignores everything after that line
C18_OpenAIAnyChunking ==
  ParserReturned("openai") =>
    stream.fullResponse = chatContents(beforeDone(split(stream.text)))

\* the text of the complete objects among the lines
RECURSIVE candidateTexts(_)
candidateTexts(lines) ==
  IF lines = <<>> THEN <<>>
  ELSE (IF \E x \in Contents : Head(lines) = Candidate(x)
          THEN <<CHOOSE x \in Contents : Head(lines) = Candidate(x)>>
          ELSE <<>>) \o candidateTexts(Tail(lines))

\* the body is complete JSON objects separated by newlines
ObjectsOnly(text) ==
  LET lines == split(text)
  IN \A i \in 1..Len(lines) :
       \/ \E x \in Contents : lines[i] = Candidate(x)
       \/ i = Len(lines) /\ lines[i] = <<>>

\* C19: the Gemini-style parser buffers across chunk boundaries: for any
\* stream of newline-separated JSON objects and any way of splitting it into
\* chunks (a boundary exactly on a newline or inside an object included),
\* every complete object contributes its text exactly once and in order,
\* and a trailing object without a final newline is parsed at stream end
C19_GeminiAnyChunking ==
  (ParserReturned("gemini") /\ ObjectsOnly(stream.text)) =>
    stream.fullResponse = candidateTexts(split(stream.text))

\* delta.text of the "data: " events of type content_block_delta among the
\* lines
RECURSIVE deltaTexts(_)
deltaTexts(lines) ==
  IF lines = <<>> THEN <<>>
  ELSE (IF \E x \in Contents : Head(lines) = DataPrefix \o ContentBlockDelta(x)
          THEN <<CHOOSE x \in Contents :
                   Head(lines) = DataPrefix \o ContentBlockDelta(x)>>
          ELSE <<>>) \o deltaTexts(Tail(lines))

\* C20: for any stream of newline-terminated lines and any way of splitting
\* it into chunks, the Anthropic-style parser returns the concatenation, in
\* order, of delta.text of exactly the "data: " events whose type is
\* content_block_delta; other event types, other lines and malformed JSON
\* contribute nothing, and parsing ends at the end of the stream
C20_AnthropicAnyChunking ==
  (ParserReturned("anthropic") /\ Terminated(stream.text)) =>
    stream.fullResponse = deltaTexts(split(stream.text))

\* the parser returned "A" from a body that held a content_block_delta and
\* an event of another type, read in chunks that cut a line
C20_Witness ==
  /\ ParserReturned("anthropic")
  /\ Terminated(stream.text)
  /\ ContentBlockStart[1] \in BodyTokens
  /\ stream.cutInLine
  /\ stream.fullResponse = <<"A">>

\* -------------------------------------------------------- properties: store
\* the number of rows of a sequence that carry checked_at t
CountAt(rows, t) == Cardinality({ i \in DOMAIN rows : rows[i].checkedAt = t })
CheckedAts(rows) == { rows[i].checkedAt : i \in DOMAIN rows }

\* kept holds the n newest rows of rows and nothing else: n rows, each of
\* them a row of rows, and no row left out is newer than a row kept
NewestOf(kept, rows, n) ==
  /\ Len(kept) = n
  /\ \A t \in CheckedAts(kept) : CountAt(kept, t) <= CountAt(rows, t)
  /\ \A t \in CheckedAts(rows) :
       CountAt(kept, t) < CountAt(rows, t)
         => \A u \in CheckedAts(kept) : u >= t

Min(a, b) == IF a < b THEN a ELSE b

NewestFirst(rows) ==
  \A i, j \in DOMAIN rows : i < j => rows[i].checkedAt >= rows[j].checkedAt

Pruning(r) == rounds[r].state = "inserted" /\ rounds'[r].state = "written"

\* C21: a prune that follows an append leaves every config its min(n, k) most
\* recent rows by checked_at: no deleted row is newer than a retained row,
\* none of the k newest is deleted, and a config with at most k rows keeps
\* all of them
C21_PruneKeepsNewest ==
  [][\A r \in Rounds :
       Pruning(r) =>
         \A id \in ConfigIds :
           /\ NewestOf(store'[id], store[id],
                       Min(Len(store[id]), LimitPerConfig))
           /\ Len(store[id]) <= LimitPerConfig
                => \A t \in CheckedAts(store[id]) :
                     CountAt(store'[id], t) = CountAt(store[id], t)]_vars

\* a prune has deleted the oldest row of a config that held more than k
\* rows, the newest of which was not the last one inserted
C21_Witness ==
  \E r \in Rounds :
    /\ rounds[r].state = "written"
    /\ rounds[r].results # {}
    /\ Len(store["a"]) = LimitPerConfig
    /\ \E row \in rounds[r].results :
         /\ row.id = "a"
         /\ \A i \in DOMAIN store["a"] : store["a"][i].checkedAt > row.checkedAt

TargetSets == {NoTargetIds} \cup { TargetIds(ids) : ids \in SUBSET ConfigIds }

\* C22: whatever the store holds, also between an insert and its prune, the
\* snapshot of get_recent_check_history has keys only for targeted configs,
\* and under each key the min(n, limit) newest rows of that config, newest
\* first
C22_RecentIsNewestCapped ==
  \A target \in TargetSets :
    LET snapshot == rpc_get_recent_check_history(store, LimitPerConfig, target) IN
    /\ \A id \in DOMAIN snapshot :
         /\ Targeted(id, target)
         /\ Len(snapshot[id]) <= LimitPerConfig
         /\ NewestOf(snapshot[id], store[id], Min(Len(store[id]), LimitPerConfig))
         /\ NewestFirst(snapshot[id])
    /\ \A id \in ConfigIds :
         Targeted(id, target) /\ store[id] # <<>> => id \in DOMAIN snapshot

\* a reader has loaded the history after an insert and before its prune: the
\* table holds more than the limit for config a, in no order, and the reader
\* holds the newest rows
C22_Witness ==
  /\ \E r \in Rounds : rounds[r].state = "inserted"
  /\ Len(store["a"]) > LimitPerConfig
  /\ ~NewestFirst(store["a"])
  /\ store["m"] # <<>>
  /\ calls[1].pc = "decide"
  /\ calls[1].history = readFilteredHistory(WriterGroup, store)
  /\ Len(calls[1].history["a"]) = LimitPerConfig

\* ------------------------------------------------- properties: the snapshot
\* the callers that have received a snapshot
Served == { c \in Calls : view[c].kind = "data" }
TimelinesOf(c) == view[c].data.providerTimelines
TimelinesFor(c, id) ==
  { i \in DOMAIN TimelinesOf(c) : TimelinesOf(c)[i].id = id }

\* the configs of a group by the rows of check_configs themselves
MaintenanceIds(g) ==
  { cfg.id : cfg \in { x \in loadProviderConfigsFromDB :
                         x.groupName = g /\ x.is_maintenance } }
ProbedIds(g) ==
  { cfg.id : cfg \in { x \in loadProviderConfigsFromDB :
                         x.groupName = g /\ ~x.is_maintenance } }

\* C23: a config under maintenance is in no probe round and in no batch
\* handed to appendHistory, and every snapshot returned for its group holds
\* exactly one timeline for it, with no items and latest.status
\* "maintenance", in every refresh mode and whatever rows the table holds
\* for it
C23_MaintenanceIsPlaceholder ==
  /\ \A r \in Rounds : \A result \in rounds[r].results :
       ~\E cfg \in loadProviderConfigsFromDB :
          cfg.id = result.id /\ cfg.is_maintenance
  /\ \A c \in Served : \A id \in MaintenanceIds(calls[c].group) :
       /\ Cardinality(TimelinesFor(c, id)) = 1
       /\ \A i \in TimelinesFor(c, id) :
            /\ TimelinesOf(c)[i].items = <<>>
            /\ TimelinesOf(c)[i].latest.status = "maintenance"

\* a call with mode "always" has probed and written for the group's active
\* config and returned a snapshot, while the table holds a row of the
\* group's maintenance config
C23_Witness ==
  /\ 1 \in Served
  /\ calls[1].mode = "always"
  /\ calls[1].via = "started"
  /\ store["m"] # <<>>
  /\ \E r \in Rounds : rounds[r].state = "resolved" /\ rounds[r].results # {}
  /\ Len(TimelinesOf(1)) = 2

\* some row of check_configs belongs to the group a request names
Configured(g) ==
  \E cfg \in loadProviderConfigsFromDB :
    IF g = UNGROUPED_KEY THEN cfg.groupName = "" ELSE cfg.groupName = g

\* C24: a call answers null exactly when no loaded config belongs to the
\* group it names; the step that answers null starts no probe round, writes
\* no history and touches no cache entry, and a call for a group with a
\* config that returns a value returns a snapshot
C24_NullIffNoConfig ==
  [][\A c \in Calls :
       /\ calls[c].pc = "idle" /\ calls'[c].pc # "idle"
            => /\ view'[c].kind = "null" <=> ~Configured(calls'[c].group)
               /\ ~Configured(calls'[c].group)
                    => /\ calls'[c].pc = "done"
                       /\ calls'[c].round = NoRound
                       /\ UNCHANGED <<cache, store, rounds, appendLog>>
       /\ calls[c].pc # "done" /\ calls'[c].pc = "done"
            => /\ view'[c].kind = "null" => ~Configured(calls'[c].group)
               /\ Configured(calls'[c].group) /\ calls'[c].result.kind = "ok"
                    => view'[c].kind = "data"]_vars

\* a request for a group no config names and a request for the ungrouped
\* key, every config having a group, have been answered with null
C24_Witness ==
  /\ calls[1].pc = "done"
  /\ calls[1].group \in {"zz", UNGROUPED_KEY}
  /\ view[1].kind = "null"
  /\ \A r \in Rounds : rounds[r].state = "free"

\* -------------------------------------------------- properties: the groups
\* C25: the list getAvailableGroups returns has no duplicate, ascends in the
\* order of sort(), and holds exactly the distinct non-empty group names of
\* the loaded configs, together with the key "__ungrouped__" if and only if
\* some config has no group name
C25_GroupsSortedExact ==
  view.kind = "groups" =>
    LET groups == view.groups
        names == { view.allConfigs[i].groupName : i \in DOMAIN view.allConfigs }
    IN /\ \A i, j \in DOMAIN groups : i < j => groups[i] # groups[j]
       /\ \A i, j \in DOMAIN groups :
            i < j => codeUnits(groups[i]) < codeUnits(groups[j])
       /\ { groups[i] : i \in DOMAIN groups } =
            IF "" \in names THEN (names \ {""}) \cup {UNGROUPED_KEY}
                            ELSE names

\* the list for configs that repeat a group name, name a group in capitals
\* and lack a group: three keys, the ungrouped key between the two names
C25_Witness ==
  /\ view.kind = "groups"
  /\ Len(view.allConfigs) = MaxConfigs
  /\ \E i, j \in DOMAIN view.allConfigs :
       i # j /\ view.allConfigs[i].groupName = view.allConfigs[j].groupName
  /\ \E i \in DOMAIN view.allConfigs : view.allConfigs[i].groupName = ""
  /\ \E i \in DOMAIN view.allConfigs : view.allConfigs[i].groupName = "g1"
  /\ view.groups = <<UNGROUPED_KEY, "g1">>

\* ------------------------------------------------ properties: reading only
\* two calls with mode "never" for one group have returned snapshots built
\* from the same persisted history
SameRead(c, d) ==
  /\ c < d
  /\ c \in Served /\ d \in Served
  /\ calls[c].mode = "never" /\ calls[d].mode = "never"
  /\ calls[c].group = calls[d].group
  /\ calls[c].history = calls[d].history

Without(record, fields) == [f \in DOMAIN record \ fields |-> record[f]]

\* a latest result without what the instant of the call puts into it
Timeless(timeline) ==
  IF timeline.items = <<>>
    THEN Without(timeline.latest, {"officialStatus", "checkedAt"})
    ELSE Without(timeline.latest, {"officialStatus"})

\* the statement of C26 as the claim words it: the two snapshots are
\* identical
C26_NeverIdempotent ==
  \A c, d \in Calls : SameRead(c, d) => view[c] = view[d]

\* C26: two calls with mode "never" for one group, with no history write
\* between their reads, return snapshots equal in every field but
\* generatedAt, with timelines equal in id and items and with latest results
\* equal but for officialStatus and for the checkedAt of a maintenance
\* placeholder
C26_NeverIdempotentButClock ==
  \A c, d \in Calls :
    SameRead(c, d) =>
      /\ Without(view[c].data, {"generatedAt", "providerTimelines"})
           = Without(view[d].data, {"generatedAt", "providerTimelines"})
      /\ Len(TimelinesOf(c)) = Len(TimelinesOf(d))
      /\ \A i \in DOMAIN TimelinesOf(c) :
           /\ TimelinesOf(c)[i].id = TimelinesOf(d)[i].id
           /\ TimelinesOf(c)[i].items = TimelinesOf(d)[i].items
           /\ Timeless(TimelinesOf(c)[i]) = Timeless(TimelinesOf(d)[i])

\* two reads of one unchanged history at different instants: the snapshots
\* hold the same items and differ in generatedAt
C26_Witness ==
  /\ SameRead(1, 2)
  /\ calls[1].group = "g1"
  /\ "a" \in DOMAIN calls[1].history
  /\ view[1].data.generatedAt < view[2].data.generatedAt
  /\ view[1].data.lastUpdated = view[2].data.lastUpdated

\* ------------------------------------------------ properties: concurrency
\* the values CHECK_CONCURRENCY may be configured to (README: 1-20)
ConcurrencyLimits == 1..20

\* the checks of the batch that have issued their request and await it
InFlight == { p \in Probes : probe[p].pc \in Awaiting }

\* C27: at no moment of a probe round are more provider checks in flight
\* than the configured concurrency limit, whichever value of 1..20 it has
C27_ProbesWithinLimit ==
  \A limit \in ConcurrencyLimits : Cardinality(InFlight) <= limit

\* -------------------------------------------- properties: store failures
\* C29: a caller of loadGroupDashboardData receives a snapshot or the
\* explicit null, never an exception, also when the history store fails on
\* the read or on the write of the call
C29_NeverRejects ==
  \A c \in Calls : view[c].kind # "error"

\* ------------------------------------------------- properties: timelines
\* C30: in a returned snapshot the timeline of a non-maintenance provider
\* has at least one item, its items are ordered newest first, and its latest
\* result is items[0] in every field but officialStatus; a provider without
\* history has no timeline
C30_TimelineLatestFirst ==
  \A c \in Served :
    /\ \A i \in DOMAIN TimelinesOf(c) :
         LET timeline == TimelinesOf(c)[i] IN
         timeline.id \in ProbedIds(calls[c].group) =>
           /\ timeline.items # <<>>
           /\ NewestFirst(timeline.items)
           /\ DOMAIN timeline.latest \ {"officialStatus"}
                = DOMAIN timeline.items[1]
           /\ \A f \in DOMAIN timeline.items[1] :
                timeline.latest[f] = timeline.items[1][f]
    /\ \A id \in ProbedIds(calls[c].group) :
         id \notin DOMAIN calls[c].result.history => TimelinesFor(c, id) = {}

\* a snapshot whose probed provider has several items of different age and
\* an official status on its latest result alone, and a snapshot of the same
\* group's configs with no timeline for the provider that has no history
C30_Witness ==
  /\ 1 \in Served
  /\ \E i \in DOMAIN TimelinesOf(1) :
       LET timeline == TimelinesOf(1)[i] IN
       /\ timeline.id = "a"
       /\ Len(timeline.items) = LimitPerConfig
       /\ timeline.items[1].checkedAt > timeline.items[Len(timeline.items)].checkedAt
       /\ "officialStatus" \in DOMAIN timeline.latest
       /\ "officialStatus" \notin DOMAIN timeline.items[1]

\* -------------------------------------------------- properties: the poller
\* C28: a tick that fails entirely leaves the loop idle with its timer as it
\* was armed and writes nothing; a tick begins only when its timer is due
\* and arms the timer one interval later; and after a failed tick the next
\* tick begins one interval after the failed one began
C28_FailedTickWaits ==
  /\ [][\A n \in Nodes :
          /\ poller'[n].failed # poller[n].failed
               => /\ store' = store
                  /\ poller'[n].pc = "idle"
                  /\ poller'[n].nextTickAt = poller[n].nextTickAt
                  /\ poller'[n].attempts = poller[n].attempts
          /\ poller'[n].attempts # poller[n].attempts
               => /\ now = poller[n].nextTickAt
                  /\ poller'[n].attempts = poller[n].attempts \cup {now}
                  /\ poller'[n].nextTickAt = now + PollIntervalMs]_vars
  /\ \A n \in Nodes : \A t \in 0..MaxTime :
       (t \in poller[n].failed /\ t + PollIntervalMs <= MaxTime)
         ~> (t + PollIntervalMs) \in poller[n].attempts

\* the first tick of a node has failed and written nothing, the lease is
\* with the other node, and the node's next tick began one interval later
C28_Witness ==
  \E n \in Nodes :
    /\ 0 \in poller[n].failed
    /\ PollIntervalMs \in poller[n].attempts
    /\ poller[n].written = {}
    /\ lease.holder # n

\* ------------------------------------------- properties: official status
NoOfficialStatus(rows) ==
  \A i \in DOMAIN rows : "officialStatus" \notin DOMAIN rows[i]

\* the step in which a caller receives its answer: the snapshot is built in it
Answered(c) == view[c].kind = "waiting" /\ view'[c].kind # "waiting"

\* C31: officialStatus is on the latest result of a timeline alone: no
\* element of items carries it, neither does a row of the store, of a cached
\* history, of the history a call or a probe round holds, or of a batch
\* handed to appendHistory, and the step that builds a snapshot leaves the
\* store and the cached histories as they were
C31_OfficialStatusOnLatestOnly ==
  /\ [](/\ \A c \in Served : \A i \in DOMAIN TimelinesOf(c) :
             NoOfficialStatus(TimelinesOf(c)[i].items)
        /\ \A id \in DOMAIN store : NoOfficialStatus(store[id])
        /\ \A n \in Nodes : \A g \in KeyedGroups :
             \A id \in DOMAIN cache[n][g].history :
               NoOfficialStatus(cache[n][g].history[id])
        /\ \A c \in Calls : \A id \in DOMAIN calls[c].result.history :
             NoOfficialStatus(calls[c].result.history[id])
        /\ \A r \in Rounds :
             /\ \A result \in rounds[r].results :
                  "officialStatus" \notin DOMAIN result
             /\ \A id \in DOMAIN rounds[r].value :
                  NoOfficialStatus(rounds[r].value[id]))
  /\ [][\A c \in Calls :
          Answered(c) =>
            /\ store' = store
            /\ \A n \in Nodes : \A g \in KeyedGroups :
                 cache'[n][g].history = cache[n][g].history]_vars

\* a call has refreshed and received a snapshot built from the very history
\* its cache entry holds, with an official status on the latest result
C31_Witness ==
  /\ 1 \in Served
  /\ calls[1].via = "started"
  /\ cache["n1"][calls[1].group].hasHistory
  /\ cache["n1"][calls[1].group].history = calls[1].result.history
  /\ \E i \in DOMAIN TimelinesOf(1) :
       /\ TimelinesOf(1)[i].items # <<>>
       /\ "officialStatus" \in DOMAIN TimelinesOf(1)[i].latest
  /\ \E i \in DOMAIN TimelinesOf(1) :
       /\ TimelinesOf(1)[i].items = <<>>
       /\ "officialStatus" \in DOMAIN TimelinesOf(1)[i].latest

\* ------------------------------------------------ properties: the timers
\* the checks of the batch
Checks == { p \in Probes : probe[p].pc # "unused" }

\* a step of check p leaves every other check as it was
OnlyOwnCheck ==
  \A p \in Checks :
    probe'[p] # probe[p] => \A q \in Checks \ {p} : probe'[q] = probe[q]

\* a check is aborted only by its own timer, once its own wait has lasted
\* DEFAULT_TIMEOUT_MS
OnlyOwnTimer ==
  \A p \in Checks :
    probe[p].cause # "abort" /\ probe'[p].cause = "abort"
      => /\ probe[p].timer = "armed"
         /\ probe[p].elapsed >= DEFAULT_TIMEOUT_MS

\* C32: every check of a batch returns a CheckResult, whether or not the
\* network ever answers; the timer of a check is armed exactly while the
\* check waits and is cleared once it has returned; a step of one check (its
\* timeout and its failure included) leaves every other check as it was, and
\* a check is aborted by its own timer alone
C32_OwnTimeout ==
  /\ \A p \in Probes :
       (probe[p].pc = "ready")
         ~> (probe[p].pc = "returned" /\ probe[p].result.status # "none")
  /\ [](\A p \in Checks :
          /\ probe[p].timer = "armed" <=> probe[p].pc \in Awaiting
          /\ probe[p].pc = "returned" /\ probe[p].impl # "none"
               => probe[p].timer = "cleared")
  /\ [][OnlyOwnCheck /\ OnlyOwnTimer]_vars

\* the timer of one check has fired and the check has returned its failure,
\* while the other check, begun before that, went on waiting and returned a
\* healthy result
C32_Witness ==
  /\ probe[1].pc = "returned" /\ probe[2].pc = "returned"
  /\ probe[1].cause = "abort" /\ probe[1].timer = "cleared"
  /\ probe[1].result.status = "failed"
  /\ probe[2].cause = "none" /\ probe[2].timer = "cleared"
  /\ probe[2].result.status = "degraded"
  /\ batch.pc = "returned"

\* ------------------------------------------- properties: failed refreshes
\* the call that created promise r and has not yet resumed from its await
Creator(c, r) ==
  calls[c].pc = "awaitInflight" /\ calls[c].via = "started" /\ calls[c].round = r

Executing(n, g) == \E r \in RoundsOf(n, g) : Running(r)

ItemsOf(c, id) ==
  IF TimelinesFor(c, id) = {} THEN <<>>
  ELSE TimelinesOf(c)[CHOOSE i \in TimelinesFor(c, id) : TRUE].items

\* a row persisted at instant t is in the items, or the items are a full
\* page of rows none of which is older
NotStaler(items, persisted, t) ==
  \/ CountAt(items, t) >= CountAt(persisted, t)
  \/ /\ Len(items) = LimitPerConfig
     /\ \A u \in CheckedAts(items) : u >= t

\* C34: the snapshot a call with mode "always" returns holds, for every
\* active provider of the group, every row the store held within the
\* per-provider cap when the call read it, unless newer rows have taken its
\* place under the cap
C34_AlwaysNotStalerThanStore ==
  \A c \in Served :
    calls[c].mode = "always" =>
      \A id \in DOMAIN calls[c].history :
        \A t \in CheckedAts(calls[c].history[id]) :
          NotStaler(ItemsOf(c, id), calls[c].history[id], t)

\* ------------------------------------------------- properties: coverage
\* C35: the snapshot a call with mode "missing" returns holds a timeline
\* with at least one item for every config of the group that is not under
\* maintenance, and its total is the number of the group's configs
C35_MissingCoversGroup ==
  \A c \in Served :
    calls[c].mode = "missing" =>
      /\ \A id \in ProbedIds(calls[c].group) : ItemsOf(c, id) # <<>>
      /\ view[c].data.total =
           Cardinality(ProbedIds(calls[c].group) \cup MaintenanceIds(calls[c].group))

\* ------------------------------------------------ properties: the keys
\* C36: every key of the list getAvailableGroups returns is answered by
\* loadGroupDashboardData with a snapshot, not with null, and every loaded
\* config belongs to the group of exactly one key of the list, whatever its
\* group name
C36_GroupsAgree ==
  /\ view.kind = "opened" => view.result # "null"
  /\ view.kind \in {"groups", "opened"} =>
       \A i \in DOMAIN view.allConfigs :
         Cardinality({ k \in DOMAIN view.groups :
                         isInTargetGroup(view.allConfigs[i], view.groups[k]) }) = 1

\* ------------------------------------------ properties: the dashboard client
\* the refresh calls that have begun a fetch and not yet finished
Refreshing == client.fetching + client.parsing

\* C37: at most one fetch of /api/dashboard is under way at any time; a
\* timer firing that finds a refresh running changes nothing (it begins no
\* fetch and leaves nothing behind), and the end of a refresh begins no fetch
C37_OneFetchInFlight ==
  /\ [](Refreshing <= 1)
  /\ [][/\ client'.ticks # client.ticks /\ Refreshing > 0
             => client' = [client EXCEPT !.ticks = client'.ticks,
                                         !.skipped = client'.skipped]
        /\ client'.started # client.started
             => /\ client'.ticks = client.ticks + 1
                /\ Refreshing = 0
        /\ client'.ticks = client.ticks => client'.started = client.started]_vars

\* a firing of the timer was skipped while the first fetch was under way,
\* and a later firing has begun the second fetch
C37_Witness ==
  /\ client.skipped # {}
  /\ client.started = 2
  /\ client.fetching = 1
  /\ client.ticks = MaxTicks

\* C38: a refresh that fails leaves the displayed data as it was, releases
\* the lock and resets isRefreshing; the lock is held only while a refresh
\* runs; a timer firing that finds the lock free begins a fetch, and after a
\* failed refresh the timer is still armed and its next firing begins one
C38_FailedRefreshReleases ==
  /\ [][client'.failed # client.failed
          => /\ client'.data = client.data
             /\ ~client'.lockRef
             /\ ~client'.isRefreshing
             /\ client'.data.pollIntervalMs > 0]_vars
  /\ [](/\ client.lockRef <=> Refreshing > 0
        /\ client.isRefreshing <=> client.lockRef)
  /\ [][client'.ticks # client.ticks /\ ~client.lockRef
          => client'.started = client.started + 1 /\ client'.fetching = 1]_vars
  /\ \A n \in 1..MaxTicks :
       (n \in client.failed /\ client.started = n /\ client.ticks < MaxTicks)
         ~> client.started > n

\* the first refresh failed on a non-OK answer, the second on the body; the
\* initial data is still displayed, the lock is free, and the next firing
\* has begun the third fetch
C38_Witness ==
  /\ client.failed = {1, 2}
  /\ client.data = Snapshot(0, PollIntervalMs)
  /\ client.started = 3
  /\ client.fetching = 1

====
